---- MODULE Spec2Model ----
(***************************************************************************)
(* Model of the PSF-beads analysis of microscope-metrics                   *)
(* (src/src/microscopemetrics/samples/psf_beads.py).                       *)
(*                                                                         *)
(* A channel volume is modelled sparsely: a shape <<Z, Y, X>> and a        *)
(* function from the positions of its bright voxels to their intensities;  *)
(* every other voxel holds 0.  Positions are tuples <<z, y, x>> with       *)
(* 0-based coordinates, as numpy indexes them.                             *)
(*                                                                         *)
(* The Gaussian pre-filter of _find_beads is skipped when any sigma is     *)
(* falsy; the model covers that branch (sigma with a zero component).      *)
(***************************************************************************)
EXTENDS Integers, Sequences, FiniteSets, TLC

VARIABLES
    pc,                \* where the call stands: a loop of analyse_psf_beads, "returned" or "raised"
    args,              \* the arguments of the call
    ret,               \* the value returned or the exception raised
    image_index,       \* the image the current loop of analyse_psf_beads is at (1-based)
    saturated_channels,
    bead_crops,
    bead_positions,
    bead_rsss,
    bead_fwhms,
    bead_considered_axial_edge,
    discarded_positions_self_proximity,
    discarded_positions_lateral_edge,
    bead_robust_z_scores,
    bead_considered_intensity_outlier,
    bead_properties,
    rois,
    key_values,
    output,            \* dataset.output
    processed,         \* dataset.processed
    fitted             \* the results fit_airy has given so far, by profile

locals ==
    <<image_index, saturated_channels, bead_crops, bead_positions, bead_rsss, bead_fwhms,
      bead_considered_axial_edge, discarded_positions_self_proximity,
      discarded_positions_lateral_edge, bead_robust_z_scores,
      bead_considered_intensity_outlier, bead_properties, rois, key_values, output,
      processed, fitted>>

vars == <<pc, args, ret, locals>>

(***************************************************************************)
(* Bounds of the model.                                                    *)
(***************************************************************************)
ZSize == 9
YSize == 9
XSize == 9
MaxPeaks == 3
MaxIntensity == 2
MaxMinDistance == 4
MaxBeads == 7
MaxBeadIntensity == 3
MaxThreshold == 2
MaxImages == 2
MaxChannels == 2
MaxImagePeaks == 2
MaxRss == 1
MaxFwhm == 1
MaxClusters == 2
BeadSpacing == 3
GridColumns == 3
MaxTableRows == 3
MaxTableFwhm == 2

(***************************************************************************)
(* Program constants.                                                      *)
(***************************************************************************)
\* threshold_rel = 0.2 of the three peak_local_max calls, as a fraction
ThresholdRelNum == 1
ThresholdRelDen == 5
\* the factor 0.6745 of the robust z-score, as ScoreFactor / ScoreScale
ScoreFactor == 6745
ScoreScale == 10000
\* the sample size from which an intensity outlier is flagged
MinOutlierSample == 6
\* considered_axial_edge: the centre lies within 4 FWHM of an end of the profile
AxialEdgeFactor == 4
\* the number of isolated beads per image of the intensity-outlier test
NrIsolatedBeads == 12

(***************************************************************************)
(* Arithmetic helpers.                                                     *)
(***************************************************************************)
Abs(n) == IF n < 0 THEN -n ELSE n

Max2(a, b) == IF a >= b THEN a ELSE b

Min2(a, b) == IF a <= b THEN a ELSE b

SetMax(S) == CHOOSE m \in S : \A n \in S : n <= m

SetMin(S) == CHOOSE m \in S : \A n \in S : m <= n

Range(s) == {s[i] : i \in DOMAIN s}

\* None, and a name that is not bound yet
NoValue == [fn |-> "none"]

\* a Python list: a sequence whose items are computed once, when it is built
AsList(s) == s \o <<>>

RECURSIVE SumSeq(_)
SumSeq(xs) == IF xs = <<>> THEN 0 ELSE Head(xs) + SumSeq(Tail(xs))

\* the numbers of S in increasing order
RECURSIVE SortedSeq(_)
SortedSeq(S) ==
    IF S = {} THEN <<>>
    ELSE LET least == CHOOSE m \in S : \A n \in S : m <= n
         IN  <<least>> \o SortedSeq(S \ {least})

\* lexicographic (C-order) comparison of two positions, as np.nonzero lists them
LexLess(p, q) ==
    \/ p[1] < q[1]
    \/ p[1] = q[1] /\ p[2] < q[2]
    \/ p[1] = q[1] /\ p[2] = q[2] /\ p[3] < q[3]

RECURSIVE SetToSortedSeq(_)
SetToSortedSeq(S) ==
    IF S = {} THEN <<>>
    ELSE LET first == CHOOSE p \in S : \A q \in S \ {p} : LexLess(p, q)
         IN  <<first>> \o SetToSortedSeq(S \ {first})

(***************************************************************************)
(* min_distance is a float in the source.  The model holds it in half      *)
(* pixels (5 stands for 2.5), so that int() and // truncate.               *)
(***************************************************************************)
\* int(min_distance)
IntMinDistance(min_distance) == min_distance \div 2

\* int(min_distance // 2)
HalfMinDistance(min_distance) == min_distance \div 4

(***************************************************************************)
(* skimage.feature.peak_local_max as _find_beads calls it.                 *)
(***************************************************************************)
Voxels(channel) == DOMAIN channel.voxels

ImageMax(channel) ==
    IF Voxels(channel) = {} THEN 0
    ELSE SetMax({channel.voxels[p] : p \in Voxels(channel)})

ImageMin(channel) ==
    IF Cardinality(Voxels(channel)) < channel.shape[1] * channel.shape[2] * channel.shape[3]
    THEN 0
    ELSE SetMin({channel.voxels[p] : p \in Voxels(channel)})

\* image > max(image.min(), threshold_rel * image.max())
AboveThreshold(channel, v) ==
    /\ v > ImageMin(channel)
    /\ v * ThresholdRelDen > ThresholdRelNum * ImageMax(channel)

Chebyshev(p, q) == Max2(Abs(p[1] - q[1]), Max2(Abs(p[2] - q[2]), Abs(p[3] - q[3])))

SquaredEuclidean(p, q) ==
    (p[1] - q[1]) * (p[1] - q[1]) + (p[2] - q[2]) * (p[2] - q[2])
        + (p[3] - q[3]) * (p[3] - q[3])

\* _get_peak_mask: the voxel equals the maximum of its (2*min_distance+1)-cube
\* and exceeds the threshold.  A voxel of the zero background never does.
PeakMask(channel, min_distance) ==
    {p \in Voxels(channel) :
        /\ \A q \in Voxels(channel) :
              Chebyshev(p, q) <= min_distance => channel.voxels[q] <= channel.voxels[p]
        /\ AboveThreshold(channel, channel.voxels[p])}

\* _exclude_border: border_width[i] voxels are dropped at both ends of axis i
ExcludeBorder(channel, mask, border_width) ==
    {p \in mask :
        \A i \in 1..3 :
            border_width[i] = 0
                \/ (p[i] >= border_width[i] /\ p[i] < channel.shape[i] - border_width[i])}

\* the peak that np.argsort(-intensities, kind="stable") puts first
Brightest(channel, S) ==
    CHOOSE p \in S :
        \A q \in S \ {p} :
            \/ channel.voxels[p] > channel.voxels[q]
            \/ channel.voxels[p] = channel.voxels[q] /\ LexLess(p, q)

\* distance(a, b) < spacing under the p-norm: "inf" or "2"
Closer(a, b, spacing, p_norm) ==
    IF p_norm = "inf" THEN Chebyshev(a, b) < spacing
    ELSE SquaredEuclidean(a, b) < spacing * spacing

\* a slip of ensure_spacing: every candidate is kept
EnsureSpacingKeepsAll(channel, candidates, kept, spacing, p_norm) == candidates \cup kept

\* ensure_spacing: by decreasing intensity, a peak is kept unless a kept peak
\* lies closer than spacing
RECURSIVE EnsureSpacing(_, _, _, _, _)
EnsureSpacing(channel, candidates, kept, spacing, p_norm) ==
    IF candidates = {} THEN kept
    ELSE LET p == Brightest(channel, candidates)
         IN  IF \E k \in kept : Closer(k, p, spacing, p_norm)
             THEN EnsureSpacing(channel, candidates \ {p}, kept, spacing, p_norm)
             ELSE EnsureSpacing(channel, candidates \ {p}, kept \cup {p}, spacing, p_norm)

\* exclude_border=True is a border of min_distance on every axis
peak_local_max(channel, min_distance, border_width, p_norm) ==
    EnsureSpacing(channel,
                  ExcludeBorder(channel, PeakMask(channel, min_distance), border_width),
                  {}, min_distance, p_norm)

(***************************************************************************)
(* _find_beads                                                             *)
(***************************************************************************)
positions_all(channel) == peak_local_max(channel, 1, <<1, 1, 1>>, "inf")

positions_proximity_filtered(channel, min_distance) ==
    LET md == IntMinDistance(min_distance)
    IN  peak_local_max(channel, md, <<md, md, md>>, "inf")

\* a slip of the third detection: the lateral border is one pixel, whatever
\* the min_distance
EdgeFilteredByOnePixel(channel, min_distance) ==
    peak_local_max(channel, IntMinDistance(min_distance), <<1, 1, 1>>, "2")

positions_proximity_edge_filtered(channel, min_distance) ==
    LET md == IntMinDistance(min_distance)
        half == HalfMinDistance(min_distance)
    IN  peak_local_max(channel, md, <<1, half, half>>, "2")

positions_edge_filtered(channel, min_distance) ==
    positions_proximity_filtered(channel, min_distance)
        \cap positions_proximity_edge_filtered(channel, min_distance)

\* channel[:, y-h : y+h, x-h : x+h] with Python's slice semantics: a negative
\* bound counts from the end, bounds are clipped to the axis
SliceBound(b, n) == IF b < 0 THEN Max2(b + n, 0) ELSE IF b > n THEN n ELSE b

BeadImage(channel, pos, min_distance) ==
    LET half == HalfMinDistance(min_distance)
        ylo == SliceBound(pos[2] - half, channel.shape[2])
        yhi == SliceBound(pos[2] + half, channel.shape[2])
        xlo == SliceBound(pos[3] - half, channel.shape[3])
        xhi == SliceBound(pos[3] + half, channel.shape[3])
        inside == {p \in Voxels(channel) :
                      p[2] >= ylo /\ p[2] < yhi /\ p[3] >= xlo /\ p[3] < xhi}
    IN  [shape |-> <<channel.shape[1], Max2(yhi - ylo, 0), Max2(xhi - xlo, 0)>>,
         origin |-> <<0, ylo, xlo>>,
         voxels |-> [p \in inside |-> channel.voxels[p]]]

\* the beads, and the two lists of discarded positions, from the results of
\* the three peak_local_max calls
FoundBeads(channel, min_distance, positions_all_set, positions_proximity_filtered_set, positions_proximity_edge_filtered_set) ==
    LET positions_edge_filtered_set ==
            positions_proximity_filtered_set \cap positions_proximity_edge_filtered_set
        valid_positions_set == positions_proximity_edge_filtered_set
        discarded_positions_proximity_set ==
            positions_all_set \ positions_proximity_filtered_set
        discarded_positions_edge_set == positions_all_set \ positions_edge_filtered_set
        valid_positions == SetToSortedSeq(valid_positions_set)
    IN  [bead_images |-> AsList([i \in DOMAIN valid_positions |->
                                    BeadImage(channel, valid_positions[i], min_distance)]),
         valid_positions |-> valid_positions,
         discarded_positions_proximity |-> SetToSortedSeq(discarded_positions_proximity_set),
         discarded_positions_edge |-> SetToSortedSeq(discarded_positions_edge_set)]

_find_beads(channel, min_distance) ==
    FoundBeads(channel, min_distance,
               positions_all(channel),
               positions_proximity_filtered(channel, min_distance),
               positions_proximity_edge_filtered(channel, min_distance))

(***************************************************************************)
(* _calculate_bead_intensity_outliers                                      *)
(*                                                                         *)
(* bead_crops is a dict keyed by image name, in insertion order; the model *)
(* holds it as a sequence over the images (names are distinct), each a     *)
(* sequence over the channels, each a sequence of bead crops.  Medians are *)
(* held doubled (and the MAD quadrupled) so that they stay integers; a     *)
(* robust z-score is the exact fraction num / den, where den = 0 stands    *)
(* for the float results inf (num # 0) and nan (num = 0) of a division by  *)
(* a zero MAD.  The threshold is held in units of 1 / ScoreScale.          *)
(***************************************************************************)
\* bead.max()
BeadMax(bead) ==
    IF DOMAIN bead.voxels = {} THEN 0
    ELSE SetMax({bead.voxels[p] : p \in DOMAIN bead.voxels})

RECURSIVE Concat(_)
Concat(seqs) == IF seqs = <<>> THEN <<>> ELSE Head(seqs) \o Concat(Tail(seqs))

\* the value at rank k (1-based) of the sorted list
KthSmallest(xs, k) ==
    CHOOSE v \in Range(xs) :
        /\ Cardinality({i \in DOMAIN xs : xs[i] < v}) < k
        /\ Cardinality({i \in DOMAIN xs : xs[i] <= v}) >= k

\* twice np.median(xs); the nan of an empty list is never used and held as 0
Median2(xs) ==
    LET n == Len(xs)
    IN  IF n = 0 THEN 0
        ELSE IF n % 2 = 1 THEN 2 * KthSmallest(xs, (n + 1) \div 2)
        ELSE KthSmallest(xs, n \div 2) + KthSmallest(xs, n \div 2 + 1)

\* four times np.median(np.abs(xs - median))
Mad4(xs) == Median2([i \in DOMAIN xs |-> Abs(2 * xs[i] - Median2(xs))])

\* a slip of the comparison: a score that is not finite exceeds nothing
ExceedsThresholdWhenFinite(score, threshold) ==
    IF score.den = 0 THEN FALSE
    ELSE Abs(score.num) * ScoreScale > threshold * score.den

\* abs(score) > robust_z_score_threshold
ExceedsThreshold(score, threshold) ==
    IF score.den = 0 THEN score.num # 0
    ELSE Abs(score.num) * ScoreScale > threshold * score.den

BeadMaxIntensities(crops) ==
    Concat([im \in DOMAIN crops |->
               Concat([ch \in DOMAIN crops[im] |->
                          [b \in DOMAIN crops[im][ch] |->
                              BeadMax(crops[im][ch][b])]])])

\* ch_rzscores.append(...): 0 for a single bead, else 0.6745 * (max - median) / mad
RobustZScore(n, bead_max, median2, mad4) ==
    IF n = 1 THEN [num |-> 0, den |-> 1]
    ELSE [num |-> ScoreFactor * 2 * (2 * bead_max - median2), den |-> ScoreScale * mad4]

\* a slip of the sample-size test: a sample of MinOutlierSample is never flagged
IsOutlierAboveMinSample(n, score, robust_z_score_threshold) ==
    IF n = 1 THEN FALSE
    ELSE IF 1 < n /\ n <= MinOutlierSample THEN FALSE
    ELSE ExceedsThreshold(score, robust_z_score_threshold)

\* ch_is_outlier.append(...)
IsOutlier(n, score, robust_z_score_threshold) ==
    IF n = 1 THEN FALSE
    ELSE IF 1 < n /\ n < MinOutlierSample THEN FALSE
    ELSE ExceedsThreshold(score, robust_z_score_threshold)

\* the score and the flag of every bead, from the size, the median and the
\* MAD of the sample
ScoredCrops(crops, n, median2, mad4, robust_z_score_threshold) ==
    [bead_rzscores |->
        [im \in DOMAIN crops |->
            [ch \in DOMAIN crops[im] |->
                [b \in DOMAIN crops[im][ch] |->
                    RobustZScore(n, BeadMax(crops[im][ch][b]), median2, mad4)]]],
     bead_considered_intensity_outlier |->
        [im \in DOMAIN crops |->
            [ch \in DOMAIN crops[im] |->
                [b \in DOMAIN crops[im][ch] |->
                    IsOutlier(n, RobustZScore(n, BeadMax(crops[im][ch][b]), median2, mad4),
                              robust_z_score_threshold)]]]]

OutliersAmong(crops, bead_max_intensities, robust_z_score_threshold) ==
    ScoredCrops(crops, Len(bead_max_intensities), Median2(bead_max_intensities),
                Mad4(bead_max_intensities), robust_z_score_threshold)

\* a slip of the statistics: the median and the MAD are taken per image
OutliersPerImage(crops, robust_z_score_threshold) ==
    [bead_rzscores |->
        [im \in DOMAIN crops |->
            OutliersAmong(<<crops[im]>>, BeadMaxIntensities(<<crops[im]>>),
                          robust_z_score_threshold).bead_rzscores[1]],
     bead_considered_intensity_outlier |->
        [im \in DOMAIN crops |->
            OutliersAmong(<<crops[im]>>, BeadMaxIntensities(<<crops[im]>>),
                          robust_z_score_threshold).bead_considered_intensity_outlier[1]]]

_calculate_bead_intensity_outliers(crops, robust_z_score_threshold) ==
    OutliersAmong(crops, BeadMaxIntensities(crops), robust_z_score_threshold)

(***************************************************************************)
(* _process_bead, _process_channel, _process_image                         *)
(*                                                                         *)
(* fit_airy is a function of the profile alone.  fits maps a profile to    *)
(* the residual sum of squares and the FWHM fitted to it; the centre of    *)
(* the fit is taken at the maximum of the profile.  voxel sizes, and the   *)
(* columns derived from them, are left out.                                *)
(***************************************************************************)
\* bead[z, y, x], indexed within the crop
BeadValue(bead, z, y, x) ==
    LET p == <<z + bead.origin[1], y + bead.origin[2], x + bead.origin[3]>>
    IN  IF p \in DOMAIN bead.voxels THEN bead.voxels[p] ELSE 0

\* np.max(bead, axis=<the other two axes>)[k]
AxisMax(bead, axis, k) ==
    LET slice == {p \in DOMAIN bead.voxels : p[axis] - bead.origin[axis] = k}
    IN  IF slice = {} THEN 0 ELSE SetMax({bead.voxels[p] : p \in slice})

\* np.argmax: the index, counted from 0, of the first maximum of the list
ArgMax(xs) ==
    CHOOSE k \in 0..(Len(xs) - 1) :
        /\ \A j \in 0..(Len(xs) - 1) : xs[j + 1] <= xs[k + 1]
        /\ \A j \in 0..(k - 1) : xs[j + 1] < xs[k + 1]

Focus(bead, axis) ==
    ArgMax(AsList([k \in 1..bead.shape[axis] |-> AxisMax(bead, axis, k - 1)]))

\* (z_profile, y_profile, x_profile) through the three focus indices
BeadProfiles(bead) ==
    LET z_focus == Focus(bead, 1)
        y_focus == Focus(bead, 2)
        x_focus == Focus(bead, 3)
    IN  << AsList([k \in 1..bead.shape[1] |-> BeadValue(bead, k - 1, y_focus, x_focus)]),
           AsList([k \in 1..bead.shape[2] |-> BeadValue(bead, z_focus, k - 1, x_focus)]),
           AsList([k \in 1..bead.shape[3] |-> BeadValue(bead, z_focus, y_focus, k - 1)]) >>

fit_airy(profile, fits) ==
    [rss |-> fits[profile].rss,
     fwhm |-> fits[profile].fwhm,
     center_pos |-> ArgMax(profile)]

\* what _process_bead returns, from the profiles and their three fits
MeasuredBead(profiles, z, y, x) ==
    [profiles |-> profiles,
     rss |-> <<z.rss, y.rss, x.rss>>,
     fwhm |-> <<z.fwhm, y.fwhm, x.fwhm>>,
     considered_axial_edge |->
         \/ z.center_pos - profiles[1][1] < z.fwhm * AxialEdgeFactor
         \/ profiles[1][Len(profiles[1])] - z.center_pos < z.fwhm * AxialEdgeFactor]

FittedBead(profiles, fits) ==
    MeasuredBead(profiles, fit_airy(profiles[1], fits), fit_airy(profiles[2], fits),
                 fit_airy(profiles[3], fits))

_process_bead(bead, fits) == FittedBead(BeadProfiles(bead), fits)

\* what _process_channel returns, from the beads found and their measures
ChannelOutput(found, fitted_beads) ==
    [beads |-> found.bead_images,
     bead_positions |-> found.valid_positions,
     bead_rsss |-> [b \in DOMAIN fitted_beads |-> fitted_beads[b].rss],
     bead_fwhms |-> [b \in DOMAIN fitted_beads |-> fitted_beads[b].fwhm],
     discarded_self_proximity_positions |-> found.discarded_positions_proximity,
     discarded_lateral_edge_positions |-> found.discarded_positions_edge,
     considered_axial_edge |->
         [b \in DOMAIN fitted_beads |-> fitted_beads[b].considered_axial_edge]]

\* the loop of _process_channel over the beads found
ProcessedBeads(found, fits) ==
    ChannelOutput(found,
                  AsList([b \in DOMAIN found.bead_images |->
                             _process_bead(found.bead_images[b], fits)]))

_process_channel(channel, min_bead_distance, fits) ==
    ProcessedBeads(_find_beads(channel, min_bead_distance), fits)

\* what _process_image returns, from the outputs of its channels
ImageOutput(channel_outputs) ==
    [bead_images |-> [ch \in DOMAIN channel_outputs |-> channel_outputs[ch].beads],
     bead_positions |->
         [ch \in DOMAIN channel_outputs |-> channel_outputs[ch].bead_positions],
     bead_rsss |-> [ch \in DOMAIN channel_outputs |-> channel_outputs[ch].bead_rsss],
     bead_fwhms |-> [ch \in DOMAIN channel_outputs |-> channel_outputs[ch].bead_fwhms],
     discarded_positions_self_proximity |->
         [ch \in DOMAIN channel_outputs |->
             channel_outputs[ch].discarded_self_proximity_positions],
     discarded_positions_lateral_edge |->
         [ch \in DOMAIN channel_outputs |->
             channel_outputs[ch].discarded_lateral_edge_positions],
     bead_considered_axial_edge |->
         [ch \in DOMAIN channel_outputs |-> channel_outputs[ch].considered_axial_edge]]

_process_image(image, min_bead_distance, fits) ==
    ImageOutput(AsList([ch \in DOMAIN image.channels |->
                           _process_channel(image.channels[ch], min_bead_distance, fits)]))

\* the profiles fit_airy is called with while an image is processed
ImageProfiles(image, min_bead_distance) ==
    UNION {Range(BeadProfiles(bead)) :
              bead \in UNION {Range(_find_beads(image.channels[ch],
                                                min_bead_distance).bead_images) :
                                 ch \in DOMAIN image.channels}}

(***************************************************************************)
(* The tables, regions of interest and key values of analyse_psf_beads.    *)
(* A dict keyed by image name is a sequence over the images, as above; an  *)
(* image name is the index of the image.                                   *)
(***************************************************************************)
\* [[b_rss[axis] > fitting_rss_threshold for b_rss in ch_rss] for ch_rss in ...]
BeadConsideredBadFit(rsss, axis, fitting_rss_threshold) ==
    [im \in DOMAIN rsss |->
        [ch \in DOMAIN rsss[im] |->
            [b \in DOMAIN rsss[im][ch] |-> rsss[im][ch][b][axis] > fitting_rss_threshold]]]

\* a slip of the order of the third loop: by channel, then image, then bead
BeadIndexByChannel(crops) ==
    Concat([ch \in 1..MaxChannels |->
               Concat([im \in DOMAIN crops |->
                          IF ch \in DOMAIN crops[im]
                          THEN [b \in DOMAIN crops[im][ch] |-> <<im, ch, b>>]
                          ELSE <<>>])])

\* the beads in the order of the third loop: by image, channel and bead
BeadIndex(crops) ==
    Concat([im \in DOMAIN crops |->
               Concat([ch \in DOMAIN crops[im] |->
                          [b \in DOMAIN crops[im][ch] |-> <<im, ch, b>>]])])

\* the columns of bead_properties after the third loop; image_label is
\* created with the others and never appended to
BeadProperties(crops, positions, rsss, fwhms, axial_edge, rzscores, intensity_outlier, fitting_rss_threshold) ==
    LET idx == BeadIndex(crops)
        at(d, k) == d[idx[k][1]][idx[k][2]][idx[k][3]]
        bad(axis) == BeadConsideredBadFit(rsss, axis, fitting_rss_threshold)
    IN  [image_label |-> <<>>,
         image_name |-> [k \in DOMAIN idx |-> idx[k][1]],
         channel_nr |-> [k \in DOMAIN idx |-> idx[k][2] - 1],
         bead_nr |-> [k \in DOMAIN idx |-> idx[k][3] - 1],
         intensity_max |-> [k \in DOMAIN idx |-> BeadMax(at(crops, k))],
         intensity_robust_z_score |-> [k \in DOMAIN idx |-> at(rzscores, k)],
         considered_intensity_outlier |-> [k \in DOMAIN idx |-> at(intensity_outlier, k)],
         z_centroid |-> [k \in DOMAIN idx |-> at(positions, k)[1]],
         y_centroid |-> [k \in DOMAIN idx |-> at(positions, k)[2]],
         x_centroid |-> [k \in DOMAIN idx |-> at(positions, k)[3]],
         z_fit_rss |-> [k \in DOMAIN idx |-> at(rsss, k)[1]],
         y_fit_rss |-> [k \in DOMAIN idx |-> at(rsss, k)[2]],
         x_fit_rss |-> [k \in DOMAIN idx |-> at(rsss, k)[3]],
         considered_bad_z_fit |-> [k \in DOMAIN idx |-> at(bad(1), k)],
         considered_bad_y_fit |-> [k \in DOMAIN idx |-> at(bad(2), k)],
         considered_bad_x_fit |-> [k \in DOMAIN idx |-> at(bad(3), k)],
         z_fwhm |-> [k \in DOMAIN idx |-> at(fwhms, k)[1]],
         y_fwhm |-> [k \in DOMAIN idx |-> at(fwhms, k)[2]],
         x_fwhm |-> [k \in DOMAIN idx |-> at(fwhms, k)[3]],
         considered_axial_edge |-> [k \in DOMAIN idx |-> at(axial_edge, k)]]

\* pd.DataFrame(dict of lists) takes columns of one length, and raises
\* ValueError otherwise
SameLengthColumns(table) ==
    \A c1, c2 \in DOMAIN table : Len(table[c1]) = Len(table[c2])

Point(ch, b, pos) ==
    [name |-> <<ch - 1, b - 1>>, z |-> pos[1], y |-> pos[2], x |-> pos[3], c |-> ch - 1]

\* one Roi per image, holding a point per position of each channel, or per
\* position whose filter entry is set; positions_filter = <<>> stands for None
_generate_center_roi(images, positions, positions_filter) ==
    LET channel_points(im, ch) ==
            IF DOMAIN positions_filter = {}
            THEN [b \in DOMAIN positions[im][ch] |-> Point(ch, b, positions[im][ch][b])]
            ELSE LET n == Min2(Len(positions[im][ch]), Len(positions_filter[im][ch]))
                     kept == SortedSeq({b \in 1..n : positions_filter[im][ch][b]})
                 IN  [j \in DOMAIN kept |-> Point(ch, kept[j], positions[im][ch][kept[j]])]
    IN  [im \in DOMAIN images |->
            [image |-> im,
             points |-> Concat([ch \in DOMAIN images[im].channels |->
                                   channel_points(im, ch)])]]

\* [sum(len(pos) for pos in ch) for ch in zip(*discarded.values())]: zip stops
\* at the image with the fewest channels
CountPerChannel(discarded) ==
    LET nr_channels ==
            IF discarded = <<>> THEN 0
            ELSE SetMin({Len(discarded[im]) : im \in DOMAIN discarded})
    IN  [ch \in 1..nr_channels |->
            SumSeq([im \in DOMAIN discarded |-> Len(discarded[im][ch])])]

\* the values of a column in the rows of one channel, in row order
GroupValues(bead_properties_df, column, channel_nr) ==
    LET group == SortedSeq({k \in DOMAIN bead_properties_df.channel_nr :
                               bead_properties_df.channel_nr[k] = channel_nr})
    IN  [j \in DOMAIN group |-> bead_properties_df[column][group[j]]]

\* .mean() of a group, as the fraction sum / count
Mean(xs) == [num |-> SumSeq(xs), den |-> Len(xs)]

\* .std() of a group (ddof = 1), as the fraction of its square; the
\* denominator 0 of a single value is the nan pandas returns
Variance(xs) ==
    [num |-> Len(xs) * SumSeq([i \in DOMAIN xs |-> xs[i] * xs[i]]) - SumSeq(xs) * SumSeq(xs),
     den |-> Len(xs) * (Len(xs) - 1)]

\* groupby("channel_nr")[column].mean() / .median() / .std(), as lists over
\* the channels that have a row; the median is held doubled
GroupMeans(bead_properties_df, column, groups) ==
    [g \in DOMAIN groups |-> Mean(GroupValues(bead_properties_df, column, groups[g]))]

GroupMedians(bead_properties_df, column, groups) ==
    [g \in DOMAIN groups |-> Median2(GroupValues(bead_properties_df, column, groups[g]))]

GroupStds(bead_properties_df, column, groups) ==
    [g \in DOMAIN groups |-> Variance(GroupValues(bead_properties_df, column, groups[g]))]

\* the counts and the statistics of _generate_key_values over the fit RSS and
\* the FWHM in pixels; groupby("channel_nr") lists the channels that have a
\* row, in increasing order
_generate_key_values(bead_properties_df, discarded_self_proximity, discarded_lateral_edge) ==
    LET rows == DOMAIN bead_properties_df.channel_nr
        groups == SortedSeq({bead_properties_df.channel_nr[k] : k \in rows})
        group_rows(g) == {k \in rows : bead_properties_df.channel_nr[k] = groups[g]}
        count_true(column) ==
            [g \in DOMAIN groups |->
                Cardinality({k \in group_rows(g) : bead_properties_df[column][k]})]
    IN  [channel_nr |-> groups,
         nr_of_beads_analyzed |-> [g \in DOMAIN groups |-> Cardinality(group_rows(g))],
         nr_of_beads_discarded_lateral_edge |-> CountPerChannel(discarded_lateral_edge),
         nr_of_beads_discarded_self_proximity |-> CountPerChannel(discarded_self_proximity),
         nr_of_beads_considered_axial_edge |-> count_true("considered_axial_edge"),
         nr_of_beads_considered_intensity_outlier |->
             count_true("considered_intensity_outlier"),
         nr_of_beads_considered_bad_z_fit |-> count_true("considered_bad_z_fit"),
         nr_of_beads_considered_bad_y_fit |-> count_true("considered_bad_y_fit"),
         nr_of_beads_considered_bad_x_fit |-> count_true("considered_bad_x_fit"),
         fit_rss_z_mean |-> GroupMeans(bead_properties_df, "z_fit_rss", groups),
         fit_rss_z_median |-> GroupMedians(bead_properties_df, "z_fit_rss", groups),
         fit_rss_z_std |-> GroupStds(bead_properties_df, "z_fit_rss", groups),
         fit_rss_y_mean |-> GroupMeans(bead_properties_df, "y_fit_rss", groups),
         fit_rss_y_median |-> GroupMedians(bead_properties_df, "y_fit_rss", groups),
         fit_rss_y_std |-> GroupStds(bead_properties_df, "y_fit_rss", groups),
         fit_rss_x_mean |-> GroupMeans(bead_properties_df, "x_fit_rss", groups),
         fit_rss_x_median |-> GroupMedians(bead_properties_df, "x_fit_rss", groups),
         fit_rss_x_std |-> GroupStds(bead_properties_df, "x_fit_rss", groups),
         resolution_mean_fwhm_z_pixels |-> GroupMeans(bead_properties_df, "z_fwhm", groups),
         resolution_median_fwhm_z_pixels |->
             GroupMedians(bead_properties_df, "z_fwhm", groups),
         resolution_std_fwhm_z_pixels |-> GroupStds(bead_properties_df, "z_fwhm", groups),
         resolution_mean_fwhm_y_pixels |-> GroupMeans(bead_properties_df, "y_fwhm", groups),
         resolution_median_fwhm_y_pixels |->
             GroupMedians(bead_properties_df, "y_fwhm", groups),
         resolution_std_fwhm_y_pixels |-> GroupStds(bead_properties_df, "y_fwhm", groups),
         resolution_mean_fwhm_x_pixels |-> GroupMeans(bead_properties_df, "x_fwhm", groups),
         resolution_median_fwhm_x_pixels |->
             GroupMedians(bead_properties_df, "x_fwhm", groups),
         resolution_std_fwhm_x_pixels |-> GroupStds(bead_properties_df, "x_fwhm", groups)]

\* the raw profiles of one axis, by (image, channel, bead)
RawProfiles(crops, axis) ==
    [t \in UNION {UNION {{<<im, ch, b>> : b \in DOMAIN crops[im][ch]} :
                            ch \in DOMAIN crops[im]} :
                     im \in DOMAIN crops}
        |-> BeadProfiles(crops[t[1]][t[2]][t[3]])[axis]]

\* a slip of the table of profiles: a table without columns, not None, when
\* there is no profile
ProfilesTableOfAnyDataset(crops, axis) ==
    [name |-> axis, columns |-> RawProfiles(crops, axis)]

\* None when no channel of any image has a profile, else the table of the
\* profiles of the axis; the columns of the fitted profiles are left out
_generate_profiles_table(crops, axis) ==
    IF \A im \in DOMAIN crops : \A ch \in DOMAIN crops[im] : Len(crops[im][ch]) = 0
    THEN NoValue
    ELSE [name |-> axis, columns |-> RawProfiles(crops, axis)]

(***************************************************************************)
(* Inputs of _find_beads: up to MaxPeaks bright voxels in a ZSize x YSize  *)
(* x XSize volume, and a min_distance of 2 .. MaxMinDistance + 0.5 pixels. *)
(***************************************************************************)
ZMid == ZSize \div 2
YMid == YSize \div 2
XMid == XSize \div 2

PeakPositions ==
    {<<z, y, x>> : z \in {1, ZMid}, y \in 0..(YMid + 1), x \in {1, XMid, XMid + 2}}

Intensities == 1..MaxIntensity

MinDistances == 4..(2 * MaxMinDistance + 1)

RECURSIVE SubsetsUpTo(_, _)
SubsetsUpTo(S, n) ==
    IF n = 0 THEN {{}}
    ELSE LET smaller == SubsetsUpTo(S, n - 1)
         IN  smaller \cup {s \cup {e} : s \in smaller, e \in S}

Channels ==
    UNION {[ps -> Intensities] : ps \in SubsetsUpTo(PeakPositions, MaxPeaks)}

FindBeadsArgs ==
    [fn : {"_find_beads"},
     channel : {[shape |-> <<ZSize, YSize, XSize>>, voxels |-> v] : v \in Channels},
     min_distance : MinDistances]

\* the state of analyse_psf_beads on entry: empty containers, nothing assigned
InitLocals ==
    /\ image_index = 1
    /\ saturated_channels = <<>>
    /\ bead_crops = <<>>
    /\ bead_positions = <<>>
    /\ bead_rsss = <<>>
    /\ bead_fwhms = <<>>
    /\ bead_considered_axial_edge = <<>>
    /\ discarded_positions_self_proximity = <<>>
    /\ discarded_positions_lateral_edge = <<>>
    /\ bead_robust_z_scores = <<>>
    /\ bead_considered_intensity_outlier = <<>>
    /\ bead_properties = NoValue
    /\ rois = NoValue
    /\ key_values = NoValue
    /\ output = NoValue
    /\ processed = FALSE
    /\ fitted = <<>>

InitFindBeads ==
    /\ pc = "call"
    /\ args \in FindBeadsArgs
    /\ ret = NoValue
    /\ InitLocals

CallFindBeads ==
    /\ pc = "call"
    /\ args.fn = "_find_beads"
    /\ ret' = _find_beads(args.channel, args.min_distance)
    /\ pc' = "returned"
    /\ UNCHANGED <<args, locals>>

NextFindBeads == CallFindBeads

(***************************************************************************)
(* Inputs of _calculate_bead_intensity_outliers: up to MaxBeads beads with *)
(* maximum intensities 1 .. MaxBeadIntensity, spread in order over the two *)
(* channels of a first image and the channel of a second one, and a        *)
(* threshold of 1 .. MaxThreshold times 0.6745.                            *)
(***************************************************************************)
\* a crop whose brightest voxel holds v
CropWithMax(v) ==
    [shape |-> <<1, 2, 2>>, origin |-> <<0, 0, 0>>, voxels |-> (<<0, 1, 1>> :> v)]

SubSeqOrEmpty(s, lo, hi) ==
    IF lo > Min2(hi, Len(s)) THEN <<>> ELSE SubSeq(s, lo, Min2(hi, Len(s)))

BeadCropsOf(xs, c1, c2) ==
    LET crops == [i \in DOMAIN xs |-> CropWithMax(xs[i])]
    IN  <<  <<SubSeqOrEmpty(crops, 1, c1), SubSeqOrEmpty(crops, c1 + 1, c2)>>,
            <<SubSeqOrEmpty(crops, c2 + 1, Len(crops))>>  >>

OutlierArgs ==
    {[fn |-> "_calculate_bead_intensity_outliers",
      bead_crops |-> BeadCropsOf(xs, c1, c2),
      robust_z_score_threshold |-> k * ScoreFactor] :
        xs \in UNION {[1..n -> 1..MaxBeadIntensity] : n \in 0..MaxBeads},
        c1 \in {0, 1, 3}, c2 \in {3, 4},
        k \in 1..MaxThreshold}

InitOutliers ==
    /\ pc = "call"
    /\ args \in OutlierArgs
    /\ ret = NoValue
    /\ InitLocals

CallOutliers ==
    /\ pc = "call"
    /\ args.fn = "_calculate_bead_intensity_outliers"
    /\ ret' = _calculate_bead_intensity_outliers(args.bead_crops,
                                                  args.robust_z_score_threshold)
    /\ pc' = "returned"
    /\ UNCHANGED <<args, locals>>

NextOutliers == CallOutliers

SpecOutliers == InitOutliers /\ [][NextOutliers]_vars

SpecFindBeads == InitFindBeads /\ [][NextFindBeads]_vars

(***************************************************************************)
(* Inputs of _generate_key_values: the data frame of a table of up to      *)
(* MaxTableRows beads of channels 0 .. MaxChannels - 1, with a z fit of    *)
(* RSS 0 .. MaxRss and FWHM 1 .. MaxTableFwhm and a y and x fit of RSS 0   *)
(* and FWHM 1, flagged or not as axial edge and intensity outlier, and     *)
(* flagged as bad fit over a fitting_rss_threshold of 0; the discarded     *)
(* positions are those of one image without discarded bead.                *)
(***************************************************************************)
TableRows ==
    [channel_nr : 0..(MaxChannels - 1),
     z_fit_rss : 0..MaxRss,
     z_fwhm : 1..MaxTableFwhm,
     considered_axial_edge : BOOLEAN,
     considered_intensity_outlier : BOOLEAN]

\* pd.DataFrame(bead_properties) for the beads of rows
DataFrameOf(rows) ==
    [channel_nr |-> [k \in DOMAIN rows |-> rows[k].channel_nr],
     considered_axial_edge |-> [k \in DOMAIN rows |-> rows[k].considered_axial_edge],
     considered_intensity_outlier |->
         [k \in DOMAIN rows |-> rows[k].considered_intensity_outlier],
     z_fit_rss |-> [k \in DOMAIN rows |-> rows[k].z_fit_rss],
     y_fit_rss |-> [k \in DOMAIN rows |-> 0],
     x_fit_rss |-> [k \in DOMAIN rows |-> 0],
     considered_bad_z_fit |-> [k \in DOMAIN rows |-> rows[k].z_fit_rss > 0],
     considered_bad_y_fit |-> [k \in DOMAIN rows |-> FALSE],
     considered_bad_x_fit |-> [k \in DOMAIN rows |-> FALSE],
     z_fwhm |-> [k \in DOMAIN rows |-> rows[k].z_fwhm],
     y_fwhm |-> [k \in DOMAIN rows |-> 1],
     x_fwhm |-> [k \in DOMAIN rows |-> 1]]

KeyValuesArgs ==
    {[fn |-> "_generate_key_values",
      bead_properties_df |-> DataFrameOf(rows),
      discarded_positions_self_proximity |-> <<[c \in 1..MaxChannels |-> <<>>]>>,
      discarded_positions_lateral_edge |-> <<[c \in 1..MaxChannels |-> <<>>]>>] :
        rows \in UNION {[1..n -> TableRows] : n \in 0..MaxTableRows}}

InitKeyValues ==
    /\ pc = "call"
    /\ args \in KeyValuesArgs
    /\ ret = NoValue
    /\ InitLocals

CallKeyValues ==
    /\ pc = "call"
    /\ args.fn = "_generate_key_values"
    /\ ret' = _generate_key_values(args.bead_properties_df,
                                   args.discarded_positions_self_proximity,
                                   args.discarded_positions_lateral_edge)
    /\ pc' = "returned"
    /\ UNCHANGED <<args, locals>>

NextKeyValues == CallKeyValues

SpecKeyValues == InitKeyValues /\ [][NextKeyValues]_vars

(***************************************************************************)
(* analyse_psf_beads                                                       *)
(*                                                                         *)
(* A dataset holds up to MaxImages images of distinct names.  An image is  *)
(* 5-dimensional (TZYXC, one time point) with 1 .. MaxChannels channels,   *)
(* or 4-dimensional, or 0-dimensional (an array that array_data[0, ...]    *)
(* cannot index).  The channels of an image show the same up to            *)
(* MaxImagePeaks beads; is_saturated is a flag of the channel.             *)
(* min_lateral_distance_factor is 2 or MaxMinDistance pixels.              *)
(***************************************************************************)
DatasetPositions == {<<ZMid, 1, XMid>>, <<ZMid, YMid, XMid>>, <<ZMid, YMid, XMid + 2>>}

Volumes == UNION {[ps -> Intensities] : ps \in SubsetsUpTo(DatasetPositions, MaxImagePeaks)}

Images ==
    {[ndim |-> d, channels |-> <<>>] : d \in {0, 4}}
        \cup {[ndim |-> 5,
               channels |-> [c \in 1..n |->
                                [saturated |-> sat[c],
                                 shape |-> <<ZSize, YSize, XSize>>,
                                 voxels |-> v]]] :
                 n \in 1..MaxChannels, sat \in [1..MaxChannels -> BOOLEAN], v \in Volumes}

Datasets ==
    [psf_beads_images : UNION {[1..n -> Images] : n \in 0..MaxImages},
     min_lateral_distance_factor : {4, 2 * MaxMinDistance},
     intensity_robust_z_score_threshold : {ScoreFactor},
     fitting_rss_threshold : {0}]

\* what fit_airy may return for a profile
Fits == [rss : 0..MaxRss, fwhm : 1..MaxFwhm]

Init ==
    /\ pc = "check"
    /\ args \in [fn : {"analyse_psf_beads"}, dataset : Datasets]
    /\ ret = NoValue
    /\ InitLocals

dataset == args.dataset

psf_beads_images == dataset.psf_beads_images

Analysing == args.fn = "analyse_psf_beads"

\* is_saturated(channel, threshold, detector_bit_depth)
is_saturated(channel) == channel.saturated

\* a slip of the saturation scan: it stops at the first saturated channel
SaturatedChannelsFirstOnly(image) ==
    LET found == SortedSeq({c \in DOMAIN image.channels : is_saturated(image.channels[c])})
    IN  [j \in DOMAIN found \cap {1} |-> found[j] - 1]

\* saturated_channels[image.name]: the numbers (from 0) of the saturated channels
SaturatedChannels(image) ==
    LET found == SortedSeq({c \in DOMAIN image.channels : is_saturated(image.channels[c])})
    IN  [j \in DOMAIN found |-> found[j] - 1]

\* the first loop, for one image: array_data[0, ...] raises IndexError on an
\* array without dimensions, the shape check returns False at once, the
\* saturated channels are collected
CheckImage ==
    /\ Analysing /\ pc = "check"
    /\ image_index <= Len(psf_beads_images)
    /\ LET image == psf_beads_images[image_index]
       IN  IF image.ndim = 0
           THEN /\ pc' = "raised"
                /\ ret' = [exception |-> "IndexError"]
                /\ UNCHANGED <<saturated_channels, image_index>>
           ELSE IF image.ndim # 5
           THEN /\ saturated_channels' = Append(saturated_channels, <<>>)
                /\ pc' = "returned"
                /\ ret' = [value |-> FALSE]
                /\ UNCHANGED image_index
           ELSE /\ saturated_channels' =
                       Append(saturated_channels, SaturatedChannels(image))
                /\ image_index' = image_index + 1
                /\ UNCHANGED <<pc, ret>>
    /\ UNCHANGED <<args, bead_crops, bead_positions, bead_rsss, bead_fwhms,
                   bead_considered_axial_edge, discarded_positions_self_proximity,
                   discarded_positions_lateral_edge, bead_robust_z_scores,
                   bead_considered_intensity_outlier, bead_properties, rois, key_values,
                   output, processed, fitted>>

\* after the first loop: SaturationError if any channel was found saturated
CheckSaturation ==
    /\ Analysing /\ pc = "check"
    /\ image_index > Len(psf_beads_images)
    /\ IF \E im \in DOMAIN saturated_channels : Len(saturated_channels[im]) > 0
       THEN /\ pc' = "raised"
            /\ ret' = [exception |-> "SaturationError", channels |-> saturated_channels]
            /\ UNCHANGED image_index
       ELSE /\ pc' = "process"
            /\ image_index' = 1
            /\ UNCHANGED ret
    /\ UNCHANGED <<args, saturated_channels, bead_crops, bead_positions, bead_rsss,
                   bead_fwhms, bead_considered_axial_edge,
                   discarded_positions_self_proximity, discarded_positions_lateral_edge,
                   bead_robust_z_scores, bead_considered_intensity_outlier, bead_properties,
                   rois, key_values, output, processed, fitted>>

\* the assignments of the second loop from the output of _process_image
StoreImageOutput(image_output) ==
    /\ bead_crops' = Append(bead_crops, image_output.bead_images)
    /\ bead_positions' = Append(bead_positions, image_output.bead_positions)
    /\ bead_rsss' = Append(bead_rsss, image_output.bead_rsss)
    /\ bead_fwhms' = Append(bead_fwhms, image_output.bead_fwhms)
    /\ discarded_positions_self_proximity' =
           Append(discarded_positions_self_proximity,
                  image_output.discarded_positions_self_proximity)
    /\ discarded_positions_lateral_edge' =
           Append(discarded_positions_lateral_edge,
                  image_output.discarded_positions_lateral_edge)
    /\ bead_considered_axial_edge' =
           Append(bead_considered_axial_edge, image_output.bead_considered_axial_edge)

\* the second loop, for one image whose fits all succeed
ProcessImage ==
    /\ Analysing /\ pc = "process"
    /\ image_index <= Len(psf_beads_images)
    /\ \E new \in [ImageProfiles(psf_beads_images[image_index],
                                 dataset.min_lateral_distance_factor) \ DOMAIN fitted
                       -> Fits] :
           /\ fitted' = fitted @@ new
           /\ StoreImageOutput(_process_image(psf_beads_images[image_index],
                                              dataset.min_lateral_distance_factor,
                                              fitted @@ new))
    /\ image_index' = image_index + 1
    /\ UNCHANGED <<pc, args, ret, saturated_channels, bead_robust_z_scores,
                   bead_considered_intensity_outlier, bead_properties, rois, key_values,
                   output, processed>>

\* a slip of the error path: the record of the failing image is stored before
\* the FittingError is raised again
ProcessImageFittingErrorKeepsRecord ==
    /\ Analysing /\ pc = "process"
    /\ image_index <= Len(psf_beads_images)
    /\ ImageProfiles(psf_beads_images[image_index], dataset.min_lateral_distance_factor)
           \ DOMAIN fitted # {}
    /\ StoreImageOutput(ImageOutput(<<>>))
    /\ pc' = "raised"
    /\ ret' = [exception |-> "FittingError"]
    /\ UNCHANGED <<args, image_index, saturated_channels, bead_robust_z_scores,
                   bead_considered_intensity_outlier, bead_properties, rois, key_values,
                   output, processed, fitted>>

\* the second loop, for one image with a profile that fit_airy cannot fit:
\* _process_channel logs the FittingError and raises it again
ProcessImageFittingError ==
    /\ Analysing /\ pc = "process"
    /\ image_index <= Len(psf_beads_images)
    /\ ImageProfiles(psf_beads_images[image_index], dataset.min_lateral_distance_factor)
           \ DOMAIN fitted # {}
    /\ pc' = "raised"
    /\ ret' = [exception |-> "FittingError"]
    /\ UNCHANGED <<args, locals>>

\* the assignment of the two results of _calculate_bead_intensity_outliers
StoreOutliers(outliers) ==
    /\ bead_robust_z_scores' = outliers.bead_rzscores
    /\ bead_considered_intensity_outlier' = outliers.bead_considered_intensity_outlier

\* after the second loop: the intensity outliers over all the bead crops
CalculateOutliers ==
    /\ Analysing /\ pc = "process"
    /\ image_index > Len(psf_beads_images)
    /\ StoreOutliers(_calculate_bead_intensity_outliers(
                         bead_crops, dataset.intensity_robust_z_score_threshold))
    /\ pc' = "populate"
    /\ UNCHANGED <<args, ret, image_index, saturated_channels, bead_crops, bead_positions,
                   bead_rsss, bead_fwhms, bead_considered_axial_edge,
                   discarded_positions_self_proximity, discarded_positions_lateral_edge,
                   bead_properties, rois, key_values, output, processed, fitted>>

\* the third loop: one entry per analysed bead in the columns of bead_properties
PopulateBeadProperties ==
    /\ Analysing /\ pc = "populate"
    /\ bead_properties' =
           BeadProperties(bead_crops, bead_positions, bead_rsss, bead_fwhms,
                          bead_considered_axial_edge, bead_robust_z_scores,
                          bead_considered_intensity_outlier, dataset.fitting_rss_threshold)
    /\ pc' = "rois"
    /\ UNCHANGED <<args, ret, image_index, saturated_channels, bead_crops, bead_positions,
                   bead_rsss, bead_fwhms, bead_considered_axial_edge,
                   discarded_positions_self_proximity, discarded_positions_lateral_edge,
                   bead_robust_z_scores, bead_considered_intensity_outlier, rois,
                   key_values, output, processed, fitted>>

\* the eight lists of regions of interest
GenerateRois ==
    /\ Analysing /\ pc = "rois"
    /\ LET bad(axis) == BeadConsideredBadFit(bead_rsss, axis, dataset.fitting_rss_threshold)
           centers(positions, positions_filter) ==
               _generate_center_roi(psf_beads_images, positions, positions_filter)
       IN  rois' =
               [analyzed_bead_centers |-> centers(bead_positions, <<>>),
                discarded_bead_centers_lateral_edge |->
                    centers(discarded_positions_lateral_edge, <<>>),
                discarded_bead_centers_self_proximity |->
                    centers(discarded_positions_self_proximity, <<>>),
                considered_bead_centers_axial_edge |->
                    centers(bead_positions, bead_considered_axial_edge),
                considered_bead_centers_intensity_outlier |->
                    centers(bead_positions, bead_considered_intensity_outlier),
                considered_bead_centers_z_fit_quality |-> centers(bead_positions, bad(1)),
                considered_bead_centers_y_fit_quality |-> centers(bead_positions, bad(2)),
                considered_bead_centers_x_fit_quality |-> centers(bead_positions, bad(3))]
    /\ pc' = "key_values"
    /\ UNCHANGED <<args, ret, image_index, saturated_channels, bead_crops, bead_positions,
                   bead_rsss, bead_fwhms, bead_considered_axial_edge,
                   discarded_positions_self_proximity, discarded_positions_lateral_edge,
                   bead_robust_z_scores, bead_considered_intensity_outlier, bead_properties,
                   key_values, output, processed, fitted>>

\* pd.DataFrame(bead_properties), which raises ValueError over columns of
\* different lengths, and the key values computed from it
GenerateKeyValues ==
    /\ Analysing /\ pc = "key_values"
    /\ IF SameLengthColumns(bead_properties)
       THEN /\ key_values' =
                   _generate_key_values(bead_properties, discarded_positions_self_proximity,
                                        discarded_positions_lateral_edge)
            /\ pc' = "output"
            /\ UNCHANGED ret
       ELSE /\ pc' = "raised"
            /\ ret' = [exception |-> "ValueError"]
            /\ UNCHANGED key_values
    /\ UNCHANGED <<args, image_index, saturated_channels, bead_crops, bead_positions,
                   bead_rsss, bead_fwhms, bead_considered_axial_edge,
                   discarded_positions_self_proximity, discarded_positions_lateral_edge,
                   bead_robust_z_scores, bead_considered_intensity_outlier, bead_properties,
                   rois, output, processed, fitted>>

\* a slip of the last statements: True is returned without
\* dataset.processed being set
AssignOutputOnly ==
    /\ Analysing /\ pc = "output"
    /\ output' = [key_values |-> key_values, bead_properties |-> bead_properties]
    /\ pc' = "returned"
    /\ ret' = [value |-> TRUE]
    /\ UNCHANGED <<args, image_index, saturated_channels, bead_crops, bead_positions,
                   bead_rsss, bead_fwhms, bead_considered_axial_edge,
                   discarded_positions_self_proximity, discarded_positions_lateral_edge,
                   bead_robust_z_scores, bead_considered_intensity_outlier, bead_properties,
                   rois, key_values, processed, fitted>>

\* the tables of profiles are generated, dataset.output is assigned,
\* dataset.processed is set and True is returned
AssignOutput ==
    /\ Analysing /\ pc = "output"
    /\ output' =
           [bead_crops |-> bead_crops,
            analyzed_bead_centers |-> rois.analyzed_bead_centers,
            discarded_bead_centers_lateral_edge |-> rois.discarded_bead_centers_lateral_edge,
            discarded_bead_centers_self_proximity |->
                rois.discarded_bead_centers_self_proximity,
            considered_bead_centers_axial_edge |-> rois.considered_bead_centers_axial_edge,
            considered_bead_centers_intensity_outlier |->
                rois.considered_bead_centers_intensity_outlier,
            considered_bead_centers_z_fit_quality |->
                rois.considered_bead_centers_z_fit_quality,
            considered_bead_centers_y_fit_quality |->
                rois.considered_bead_centers_y_fit_quality,
            considered_bead_centers_x_fit_quality |->
                rois.considered_bead_centers_x_fit_quality,
            key_values |-> key_values,
            bead_properties |-> bead_properties,
            bead_z_profiles |-> _generate_profiles_table(bead_crops, 1),
            bead_y_profiles |-> _generate_profiles_table(bead_crops, 2),
            bead_x_profiles |-> _generate_profiles_table(bead_crops, 3)]
    /\ processed' = TRUE
    /\ pc' = "returned"
    /\ ret' = [value |-> TRUE]
    /\ UNCHANGED <<args, image_index, saturated_channels, bead_crops, bead_positions,
                   bead_rsss, bead_fwhms, bead_considered_axial_edge,
                   discarded_positions_self_proximity, discarded_positions_lateral_edge,
                   bead_robust_z_scores, bead_considered_intensity_outlier, bead_properties,
                   rois, key_values, fitted>>

Next ==
    \/ CheckImage
    \/ CheckSaturation
    \/ ProcessImage
    \/ ProcessImageFittingError
    \/ CalculateOutliers
    \/ PopulateBeadProperties
    \/ GenerateRois
    \/ GenerateKeyValues
    \/ AssignOutput

Spec == Init /\ [][Next]_vars

(***************************************************************************)
(* The datasets of the intensity-outlier test: every image holds           *)
(* NrIsolatedBeads beads of one signal, BeadSpacing pixels apart on a grid *)
(* of GridColumns columns, and up to MaxClusters clusters of two beads one *)
(* pixel apart, all in focus and clear of the borders; the minimal bead    *)
(* distance is 2 pixels.  The test blurs the beads and adds noise; the     *)
(* model holds the beads as single voxels.                                 *)
(***************************************************************************)
GridRows == (NrIsolatedBeads + GridColumns - 1) \div GridColumns

TestShape ==
    <<ZSize, BeadSpacing * (GridRows + 1) + 1, BeadSpacing * (GridColumns + 2) + 1>>

IsolatedBeadPositions ==
    {<<ZMid, BeadSpacing * (1 + (i \div GridColumns)), BeadSpacing * (1 + (i % GridColumns))>> :
        i \in 0..(NrIsolatedBeads - 1)}

ClusterPositions(k) ==
    UNION {{<<ZMid, BeadSpacing * j, BeadSpacing * (GridColumns + 1)>>,
            <<ZMid, BeadSpacing * j, BeadSpacing * (GridColumns + 1) + 1>>} : j \in 1..k}

TestImages(signal) ==
    {[ndim |-> 5,
      channels |-> [c \in 1..n |->
                       [saturated |-> FALSE,
                        shape |-> TestShape,
                        voxels |-> [p \in IsolatedBeadPositions \cup ClusterPositions(k) |->
                                       signal]]]] :
        n \in 1..MaxChannels, k \in 0..MaxClusters}

TestDatasets ==
    UNION {[psf_beads_images : UNION {[1..n -> TestImages(signal)] : n \in 0..MaxImages},
            min_lateral_distance_factor : {4},
            intensity_robust_z_score_threshold : {ScoreFactor},
            fitting_rss_threshold : {0}] : signal \in Intensities}

InitClusters ==
    /\ pc = "check"
    /\ args \in [fn : {"analyse_psf_beads"}, dataset : TestDatasets]
    /\ ret = NoValue
    /\ InitLocals

SpecClusters == InitClusters /\ [][Next]_vars

(***************************************************************************)
(* Claims about _find_beads, checked under SpecFindBeads.                  *)
(***************************************************************************)
Returned(fn) == pc = "returned" /\ args.fn = fn

AllPeaks == positions_all(args.channel)

DistanceFiltered == positions_proximity_filtered(args.channel, args.min_distance)

DistanceEdgeFiltered == positions_proximity_edge_filtered(args.channel, args.min_distance)

ValidSet == Range(ret.valid_positions)

SelfProximitySet == Range(ret.discarded_positions_proximity)

LateralEdgeSet == Range(ret.discarded_positions_edge)

\* C1: the number of all detected peaks equals the number of valid positions
\* plus the number of self-proximity-discarded positions plus the number of
\* lateral-edge-discarded positions.
C1_BeadCountConservation ==
    Returned("_find_beads") =>
        Cardinality(AllPeaks) =
            Len(ret.valid_positions) + Len(ret.discarded_positions_proximity)
                + Len(ret.discarded_positions_edge)

\* C2: self_proximity is (all peaks - distance-filtered peaks) and lateral_edge
\* is (distance-filtered peaks - distance-and-edge-filtered peaks).
C2_ExclusionSetsAreSpecDifferences ==
    Returned("_find_beads") =>
        /\ SelfProximitySet = AllPeaks \ DistanceFiltered
        /\ LateralEdgeSet = DistanceFiltered \ DistanceEdgeFiltered

\* C3: the valid set, the self_proximity set and the lateral_edge set are
\* pairwise disjoint.
C3_StructuralClassesDisjoint ==
    Returned("_find_beads") =>
        /\ ValidSet \cap SelfProximitySet = {}
        /\ ValidSet \cap LateralEdgeSet = {}
        /\ SelfProximitySet \cap LateralEdgeSet = {}

\* the pairs of bright voxels one pixel apart (a sub-resolution cluster)
Clusters(channel) ==
    {c \in SUBSET Voxels(channel) :
        /\ Cardinality(c) = 2
        /\ \A a, b \in c : a # b => Chebyshev(a, b) = 1}

WithoutCluster(channel, c) ==
    [channel EXCEPT !.voxels = [p \in Voxels(channel) \ c |-> channel.voxels[p]]]

\* the peaks of the cluster that were detected and are not kept
Suppressed(c) == (c \cap AllPeaks) \ ValidSet

IsolatedCluster(channel, c, min_distance) ==
    LET md == IntMinDistance(min_distance)
        others == Voxels(channel) \ c
        brightest == SetMax({channel.voxels[p] : p \in c})
    IN  /\ \A p \in c : \A q \in others : Chebyshev(p, q) > md
        /\ \A p \in c : \A i \in 1..3 : p[i] >= md /\ p[i] < channel.shape[i] - md
        /\ brightest * ThresholdRelDen > ThresholdRelNum * ImageMax(channel)
        /\ others = {} \/ brightest <= ImageMax(WithoutCluster(channel, c))

EquallyBright(channel, c) == \A a, b \in c : channel.voxels[a] = channel.voxels[b]

ScoredBeads ==
    {t \in (1..2) \X (1..2) \X (1..MaxBeads) :
        /\ t[1] \in DOMAIN args.bead_crops
        /\ t[2] \in DOMAIN args.bead_crops[t[1]]
        /\ t[3] \in DOMAIN args.bead_crops[t[1]][t[2]]}

SampleSize == Len(BeadMaxIntensities(args.bead_crops))

Flagged(t) == ret.bead_considered_intensity_outlier[t[1]][t[2]][t[3]]

Score(t) == ret.bead_rzscores[t[1]][t[2]][t[3]]

\* |0.6745 * (max intensity - median) / MAD| > threshold, in float arithmetic:
\* over a zero MAD the quotient is inf when the bead differs from the median
\* and nan, which exceeds nothing, when it does not
RobustZExceeds(t) ==
    LET xs == BeadMaxIntensities(args.bead_crops)
        dev2 == Abs(2 * BeadMax(args.bead_crops[t[1]][t[2]][t[3]]) - Median2(xs))
    IN  IF Mad4(xs) = 0 THEN dev2 # 0
        ELSE 6745 * 2 * dev2 > args.robust_z_score_threshold * Mad4(xs)

\* C5: with n the number of beads over all images and channels: for n = 1 the
\* score is 0 and no bead is flagged; for 2 <= n < 6 no bead is flagged; for
\* n >= 6 a bead is flagged iff |0.6745 * (max - median) / MAD| > threshold.
C5_RobustOutlierPolicy ==
    Returned("_calculate_bead_intensity_outliers") =>
        \A t \in ScoredBeads :
            /\ SampleSize = 1 => Score(t).num = 0 /\ Score(t).den # 0 /\ ~Flagged(t)
            /\ (2 <= SampleSize /\ SampleSize < 6) => ~Flagged(t)
            /\ SampleSize >= 6 => (Flagged(t) <=> RobustZExceeds(t))

C5_Witness ==
    /\ Returned("_calculate_bead_intensity_outliers")
    /\ SampleSize = 6
    /\ \E t, u \in ScoredBeads :
          /\ t[1] # u[1]
          /\ Flagged(t) /\ Score(t).den # 0
          /\ ~Flagged(u) /\ Score(u).num # 0

(***************************************************************************)
(* Claims about analyse_psf_beads, checked under Spec.                     *)
(***************************************************************************)
ImageNames == DOMAIN psf_beads_images

ChannelsOf(im) == DOMAIN psf_beads_images[im].channels

\* the channels some image of the dataset has, numbered from 1
DatasetChannels == UNION {ChannelsOf(im) : im \in ImageNames}

BeadRows == DOMAIN bead_properties.bead_nr

\* the flags that exclude a bead from the valid ones, for the bead of row k
ExclusionFlags(k) ==
    {flag \in {"lateral_edge", "self_proximity", "considered_axial_edge",
               "considered_intensity_outlier", "considered_bad_z_fit",
               "considered_bad_y_fit", "considered_bad_x_fit"} :
        flag \in DOMAIN bead_properties /\ bead_properties[flag][k]}

\* C4: every bead measurement record carries a valid flag, which is true iff
\* none of lateral_edge, self_proximity, axial_edge, intensity_outlier,
\* bad_fit_z, bad_fit_y, bad_fit_x is set.
C4_ValidFlagOnEveryRecord ==
    (Analysing /\ bead_properties # NoValue) =>
        \A k \in BeadRows :
            /\ "valid" \in DOMAIN bead_properties
            /\ bead_properties["valid"][k] <=> ExclusionFlags(k) = {}

AnySaturated ==
    \E im \in ImageNames : \E c \in ChannelsOf(im) :
        psf_beads_images[im].channels[c].saturated

AllFiveDimensional == \A im \in ImageNames : psf_beads_images[im].ndim = 5

\* the saturated (image, channel) pairs of the dataset, channels from 0
OffendingPairs ==
    {pair \in ImageNames \X (0..(MaxChannels - 1)) :
        /\ pair[2] + 1 \in ChannelsOf(pair[1])
        /\ psf_beads_images[pair[1]].channels[pair[2] + 1].saturated}

\* no bead was detected, no row was produced and dataset.output is not assigned
NothingAnalysed ==
    /\ pc \in {"check", "raised"}
    /\ bead_crops = <<>> /\ bead_positions = <<>>
    /\ bead_properties = NoValue
    /\ output = NoValue /\ ~processed

\* the call ended in a SaturationError raised after the scan of every channel
\* of every image, naming every offending pair
RaisedSaturationError ==
    /\ pc = "raised"
    /\ ret.exception = "SaturationError"
    /\ Len(saturated_channels) = Len(psf_beads_images)
    /\ DOMAIN ret.channels = ImageNames
    /\ \A pair \in ImageNames \X (0..(MaxChannels - 1)) :
           pair[2] \in Range(ret.channels[pair[1]]) <=> pair \in OffendingPairs

Ended == pc \in {"returned", "raised"}

\* C6 as stated: if any channel of any image is saturated, the call raises
\* SaturationError after scanning every channel of every image and before any
\* bead detection; the error names every offending pair, no row is produced
\* and dataset.output is not assigned.
C6_SaturationShortCircuit ==
    (Analysing /\ AnySaturated) =>
        /\ NothingAnalysed
        /\ Ended => RaisedSaturationError

\* C6 (amended): if every image is 5-dimensional and any channel of any image
\* is saturated, the call raises SaturationError after scanning every channel
\* of every image and before any bead detection; the error names every
\* offending pair, no row is produced and dataset.output is not assigned.
C6_SaturationShortCircuitOver5D ==
    (Analysing /\ AllFiveDimensional /\ AnySaturated) =>
        /\ NothingAnalysed
        /\ Ended => RaisedSaturationError

C6_Witness ==
    /\ Analysing /\ AllFiveDimensional
    /\ RaisedSaturationError
    /\ \E a, b \in OffendingPairs : a[1] # b[1]
    /\ \E im \in ImageNames : \E c \in ChannelsOf(im) :
           /\ ~psf_beads_images[im].channels[c].saturated
           /\ Voxels(psf_beads_images[im].channels[c]) # {}

\* the entry of a groupby("channel_nr") list for channel ch (from 1), 0 when
\* the channel has no row
GroupCount(counts, ch) ==
    LET g == {j \in DOMAIN key_values.channel_nr : key_values.channel_nr[j] = ch - 1}
    IN  IF g = {} THEN 0 ELSE counts[CHOOSE j \in g : TRUE]

\* the entry of a per-channel list for channel ch (from 1), 0 when it has none
ListCount(counts, ch) == IF ch \in DOMAIN counts THEN counts[ch] ELSE 0

\* the number of peaks detected in channel ch over all images
PeaksDetected(ch) ==
    SumSeq([im \in ImageNames |->
               IF ch \in ChannelsOf(im)
               THEN Cardinality(positions_all(psf_beads_images[im].channels[ch]))
               ELSE 0])

\* C7: for every channel, the per-channel counts of the key values, summed
\* over all flag categories plus the analysed count, equal the number of
\* peaks detected for that channel over all images.
C7_SummaryRoundTrip ==
    (Analysing /\ key_values # NoValue) =>
        \A ch \in DatasetChannels :
            GroupCount(key_values.nr_of_beads_analyzed, ch)
                + ListCount(key_values.nr_of_beads_discarded_lateral_edge, ch)
                + ListCount(key_values.nr_of_beads_discarded_self_proximity, ch)
                + GroupCount(key_values.nr_of_beads_considered_axial_edge, ch)
                + GroupCount(key_values.nr_of_beads_considered_intensity_outlier, ch)
                + GroupCount(key_values.nr_of_beads_considered_bad_z_fit, ch)
                + GroupCount(key_values.nr_of_beads_considered_bad_y_fit, ch)
                + GroupCount(key_values.nr_of_beads_considered_bad_x_fit, ch)
              = PeaksDetected(ch)

\* the detected peaks within min_distance / 2 pixels of a lateral border
LateralBorderBeads(im, ch) ==
    LET channel == psf_beads_images[im].channels[ch]
        half == HalfMinDistance(dataset.min_lateral_distance_factor)
    IN  {p \in positions_all(channel) :
            \E axis \in {2, 3} : p[axis] < half \/ p[axis] >= channel.shape[axis] - half}

\* the number of points a list of regions holds for position p of channel ch
PointsAt(regions, im, ch, p) ==
    Cardinality({j \in DOMAIN regions[im].points :
                    LET pt == regions[im].points[j]
                    IN  <<pt.z, pt.y, pt.x>> = p /\ pt.c = ch - 1})

\* C8: a bead within min_distance / 2 pixels of the lateral border is counted
\* in lateral_edge and not among the analysed beads, has one point in the
\* lateral-edge regions and none in the analysed-bead regions; the lateral-edge
\* count of a channel equals the number of such beads in the dataset.
C8_LateralEdgeBeadCounted ==
    Analysing =>
        /\ rois # NoValue =>
               \A im \in ImageNames : \A ch \in ChannelsOf(im) :
                   \A p \in LateralBorderBeads(im, ch) :
                       /\ p \in Range(discarded_positions_lateral_edge[im][ch])
                       /\ p \notin Range(bead_positions[im][ch])
                       /\ PointsAt(rois.discarded_bead_centers_lateral_edge, im, ch, p) = 1
                       /\ PointsAt(rois.analyzed_bead_centers, im, ch, p) = 0
        /\ key_values # NoValue =>
               \A ch \in DatasetChannels :
                   ListCount(key_values.nr_of_beads_discarded_lateral_edge, ch)
                       = SumSeq([im \in ImageNames |->
                                    IF ch \in ChannelsOf(im)
                                    THEN Cardinality(LateralBorderBeads(im, ch))
                                    ELSE 0])

(***************************************************************************)
(* Claims about the intensity-outlier test, checked under SpecClusters.    *)
(***************************************************************************)
\* the bright voxels farther than the minimal bead distance from every other
IsolatedBeads(channel) ==
    {p \in Voxels(channel) :
        \A q \in Voxels(channel) \ {p} :
            Chebyshev(p, q) > IntMinDistance(dataset.min_lateral_distance_factor)}

\* the channel holds NrIsolatedBeads isolated beads and clusters of two beads
\* one pixel apart, all of one signal
HoldsTestLayout(channel) ==
    /\ Cardinality(IsolatedBeads(channel)) = NrIsolatedBeads
    /\ Voxels(channel) = IsolatedBeads(channel) \cup UNION Clusters(channel)
    /\ \A p, q \in Voxels(channel) : channel.voxels[p] = channel.voxels[q]

TestDataset ==
    /\ Analysing
    /\ \A im \in ImageNames :
           /\ psf_beads_images[im].ndim = 5
           /\ \A ch \in ChannelsOf(im) : HoldsTestLayout(psf_beads_images[im].channels[ch])

\* the number of clusters over the images of the dataset
TotalClusters ==
    SumSeq([im \in ImageNames |-> Cardinality(Clusters(psf_beads_images[im].channels[1]))])

\* the beads of positions S that were analysed and flagged as intensity outlier
FlaggedOutliers(im, ch, S) ==
    {b \in DOMAIN bead_positions[im][ch] :
        bead_positions[im][ch][b] \in S /\ bead_considered_intensity_outlier[im][ch][b]}

Analysed(im, ch, S) == {b \in DOMAIN bead_positions[im][ch] : bead_positions[im][ch][b] \in S}

FitFailed == pc = "raised" /\ ret.exception = "FittingError"

\* C10: over images of 12 isolated beads of equal signal plus clusters of two
\* beads one pixel apart, the analysis reports for every channel an
\* intensity-outlier count equal to the number of clusters in the dataset:
\* each cluster is analysed as one bead flagged as intensity outlier and no
\* isolated bead is flagged.
C10_ClustersAreTheIntensityOutliers ==
    (TestDataset /\ Ended /\ ~FitFailed) =>
        /\ pc = "returned" /\ ret.value
        /\ \A ch \in DatasetChannels :
               GroupCount(key_values.nr_of_beads_considered_intensity_outlier, ch)
                   = TotalClusters
        /\ \A im \in ImageNames : \A ch \in ChannelsOf(im) :
               LET channel == psf_beads_images[im].channels[ch]
               IN  /\ \A c \in Clusters(channel) :
                          /\ Cardinality(Analysed(im, ch, c)) = 1
                          /\ Cardinality(FlaggedOutliers(im, ch, c)) = 1
                   /\ FlaggedOutliers(im, ch, IsolatedBeads(channel)) = {}

(***************************************************************************)
(* Further claims about analyse_psf_beads, checked under Spec.             *)
(***************************************************************************)
\* every bead of the channel is in focus and farther than the minimal bead
\* distance (held in half pixels) from every other bead and lateral border
IsolatedInFocus(channel) ==
    \A p \in Voxels(channel) :
        /\ p[1] = channel.shape[1] \div 2
        /\ \A q \in Voxels(channel) \ {p} :
               2 * Chebyshev(p, q) > dataset.min_lateral_distance_factor
        /\ \A axis \in {2, 3} :
               /\ 2 * p[axis] > dataset.min_lateral_distance_factor
               /\ 2 * (channel.shape[axis] - 1 - p[axis])
                      > dataset.min_lateral_distance_factor

\* a dataset of unsaturated 5-dimensional images of isolated, in-focus beads
IsolatedBeadsDataset ==
    /\ Analysing
    /\ \A im \in ImageNames :
           /\ psf_beads_images[im].ndim = 5
           /\ \A ch \in ChannelsOf(im) :
                  /\ ~psf_beads_images[im].channels[ch].saturated
                  /\ IsolatedInFocus(psf_beads_images[im].channels[ch])

\* the number of beads placed in channel ch over the images of the dataset
BeadsPlaced(ch) ==
    SumSeq([im \in ImageNames |->
               IF ch \in ChannelsOf(im)
               THEN Cardinality(Voxels(psf_beads_images[im].channels[ch]))
               ELSE 0])

\* C11: over images of isolated, in-focus beads farther than min_distance from
\* each other and from the lateral border, the analysis reports for every
\* channel a count of valid (analysed) beads equal to the number of beads
\* placed in the dataset; one isolated bead yields one valid bead.
C11_IsolatedBeadsAreAllValid ==
    (IsolatedBeadsDataset /\ Ended /\ ~FitFailed) =>
        /\ pc = "returned" /\ ret.value
        /\ \A ch \in DatasetChannels :
               GroupCount(key_values.nr_of_beads_analyzed, ch) = BeadsPlaced(ch)

\* the beads analysed so far, as (image, channel, bead) triples
AnalysedBeads ==
    UNION {UNION {{<<im, ch, b>> : b \in DOMAIN bead_crops[im][ch]} :
                     ch \in DOMAIN bead_crops[im]} :
              im \in DOMAIN bead_crops}

ZProfile(t) == BeadProfiles(bead_crops[t[1]][t[2]][t[3]])[1]

\* the fitted z-centre and the fitted FWHM along z of an analysed bead
ZCentre(t) == fit_airy(ZProfile(t), fitted).center_pos

ZFwhm(t) == bead_fwhms[t[1]][t[2]][t[3]][1]

\* the fitted z-centre lies within 4 x FWHM_z of the first or the last z index
NearAxialBoundary(t) ==
    \/ ZCentre(t) - 0 < AxialEdgeFactor * ZFwhm(t)
    \/ (Len(ZProfile(t)) - 1) - ZCentre(t) < AxialEdgeFactor * ZFwhm(t)

\* C12: a bead is flagged axial_edge iff its fitted z-centre lies within
\* 4 x FWHM_z of either z boundary of the bead volume (centre - 0 < 4 FWHM_z or
\* last z index - centre < 4 FWHM_z), whatever the intensities of the profile;
\* the axial-edge count of a channel is the number of beads that close.
C12_AxialEdgeIsCentreNearBoundary ==
    Analysing =>
        /\ \A t \in AnalysedBeads :
               bead_considered_axial_edge[t[1]][t[2]][t[3]] <=> NearAxialBoundary(t)
        /\ key_values # NoValue =>
               \A ch \in DatasetChannels :
                   GroupCount(key_values.nr_of_beads_considered_axial_edge, ch)
                       = Cardinality({t \in AnalysedBeads :
                                         t[2] = ch /\ NearAxialBoundary(t)})

\* nothing was computed past the second loop, and dataset.output and
\* dataset.processed are as they were before the call
NothingReported ==
    /\ bead_robust_z_scores = <<>> /\ bead_considered_intensity_outlier = <<>>
    /\ bead_properties = NoValue /\ rois = NoValue /\ key_values = NoValue
    /\ output = NoValue /\ ~processed

\* the records held are those of the images before the one being processed
RecordsOfEarlierImagesOnly ==
    /\ image_index <= Len(psf_beads_images)
    /\ DOMAIN bead_crops = 1..(image_index - 1)
    /\ DOMAIN bead_positions = 1..(image_index - 1)
    /\ DOMAIN bead_rsss = 1..(image_index - 1)
    /\ DOMAIN bead_fwhms = 1..(image_index - 1)
    /\ DOMAIN bead_considered_axial_edge = 1..(image_index - 1)
    /\ DOMAIN discarded_positions_self_proximity = 1..(image_index - 1)
    /\ DOMAIN discarded_positions_lateral_edge = 1..(image_index - 1)

\* C13: a FittingError raised while fitting a bead reaches the caller of
\* analyse_psf_beads: no later bead, channel or image is processed, no partial
\* record of the failing image is kept, dataset.output is not assigned and
\* dataset.processed is not set.
C13_FittingErrorReachesCaller ==
    (Analysing /\ FitFailed) => RecordsOfEarlierImagesOnly /\ NothingReported

C13_Witness ==
    /\ Analysing /\ FitFailed
    /\ image_index = 2 /\ Len(psf_beads_images) = 2
    /\ AnalysedBeads # {}

\* no bead detection has run on any image
NoBeadDetection ==
    /\ pc \in {"check", "returned", "raised"}
    /\ bead_crops = <<>> /\ bead_positions = <<>>
    /\ discarded_positions_self_proximity = <<>>
    /\ discarded_positions_lateral_edge = <<>>
    /\ fitted = <<>>

ReturnedFalse == pc = "returned" /\ ~ret.value

\* C14: if any input image array is not 5-dimensional, analyse_psf_beads
\* returns False instead of raising, runs no bead detection on any image, and
\* leaves dataset.output and dataset.processed unchanged.
C14_MalformedImageReturnsFalse ==
    (Analysing /\ ~AllFiveDimensional) =>
        /\ NoBeadDetection
        /\ output = NoValue /\ ~processed
        /\ Ended => ReturnedFalse

ReturnedTrue == pc = "returned" /\ ret.value

\* C15: on a dataset that starts with processed = False, dataset.processed is
\* True after the call iff the call returned True, and dataset.output is
\* assigned exactly in that case; on every other exit (False return,
\* SaturationError, FittingError) both are left unchanged.
C15_ProcessedIffReturnedTrue ==
    Analysing =>
        /\ processed <=> ReturnedTrue
        /\ output # NoValue <=> ReturnedTrue

C15_Witness ==
    /\ Analysing /\ ReturnedTrue
    /\ processed /\ output # NoValue
    /\ Len(psf_beads_images) = MaxImages
    /\ \E im \in ImageNames : Len(discarded_positions_lateral_edge[im][1]) > 0

\* C16: when the bead-measurement table is built, every column of
\* bead_properties has the same length, equal to the total number of analysed
\* beads over all images and channels: one row per analysed bead.
C16_OneRowPerAnalysedBead ==
    (Analysing /\ bead_properties # NoValue) =>
        \A column \in DOMAIN bead_properties :
            Len(bead_properties[column]) = Cardinality(AnalysedBeads)

\* the (image, channel, bead) triple of row k of the bead-measurement table
RowTriple(k) ==
    <<bead_properties.image_name[k], bead_properties.channel_nr[k],
      bead_properties.bead_nr[k]>>

\* the records of the second loop are those of the images in declaration
\* order, and each holds its channels in order
RecordsInDeclarationOrder ==
    \A im \in DOMAIN bead_positions :
        /\ DOMAIN bead_positions[im] = ChannelsOf(im)
        /\ \A ch \in ChannelsOf(im) :
               Range(bead_positions[im][ch])
                   \subseteq Voxels(psf_beads_images[im].channels[ch])

\* C17: images and channels are processed in declaration order, and the rows
\* of the bead-measurement table are ordered lexicographically by (image
\* position, channel number, bead index): of two rows, the earlier has the
\* smaller triple.
C17_RowsInLexicographicOrder ==
    Analysing =>
        /\ RecordsInDeclarationOrder
        /\ bead_properties # NoValue =>
               \A j, k \in BeadRows : j < k => LexLess(RowTriple(j), RowTriple(k))

C17_Witness ==
    /\ Analysing /\ bead_properties # NoValue
    /\ \E j, k \in BeadRows : RowTriple(j)[1] # RowTriple(k)[1]
    /\ \E j, k \in BeadRows :
           RowTriple(j)[1] = RowTriple(k)[1] /\ RowTriple(j)[2] # RowTriple(k)[2]
    /\ \E j, k \in BeadRows :
           /\ RowTriple(j)[1] = RowTriple(k)[1] /\ RowTriple(j)[2] = RowTriple(k)[2]
           /\ RowTriple(j)[3] # RowTriple(k)[3]

\* the maximum intensities of all analysed beads of all images and channels
AllBeadMaxima ==
    LET beads == SetToSortedSeq(AnalysedBeads)
    IN  [k \in DOMAIN beads |-> BeadMax(bead_crops[beads[k][1]][beads[k][2]][beads[k][3]])]

\* the score of an analysed bead against the dataset-wide median and MAD
DatasetWideScore(t) ==
    RobustZScore(Len(AllBeadMaxima), BeadMax(bead_crops[t[1]][t[2]][t[3]]),
                 Median2(AllBeadMaxima), Mad4(AllBeadMaxima))

\* per-bead extraction has completed for every channel of every image
ExtractionComplete ==
    /\ DOMAIN bead_crops = ImageNames
    /\ \A im \in ImageNames : DOMAIN bead_crops[im] = ChannelsOf(im)
    /\ image_index > Len(psf_beads_images)

ClassificationStarted ==
    \/ DOMAIN bead_robust_z_scores # {}
    \/ DOMAIN bead_considered_intensity_outlier # {}
    \/ pc \in {"populate", "rois", "key_values", "output"}

\* C18: the intensity-outlier classification starts only after per-bead
\* extraction has completed for every channel of every image, and every bead
\* is scored against one median and one MAD, those of the maximum intensities
\* of all analysed beads of all images and channels.
C18_ExtractClassifyBarrier ==
    (Analysing /\ ClassificationStarted) =>
        /\ ExtractionComplete
        /\ \A t \in AnalysedBeads :
               /\ bead_robust_z_scores[t[1]][t[2]][t[3]] = DatasetWideScore(t)
               /\ bead_considered_intensity_outlier[t[1]][t[2]][t[3]]
                      <=> /\ Len(AllBeadMaxima) >= MinOutlierSample
                          /\ ExceedsThreshold(DatasetWideScore(t),
                                              dataset.intensity_robust_z_score_threshold)

C18_Witness ==
    /\ Analysing /\ ClassificationStarted
    /\ \E t, u \in AnalysedBeads :
           /\ t[1] # u[1]
           /\ bead_considered_intensity_outlier[t[1]][t[2]][t[3]]
           /\ ~bead_considered_intensity_outlier[u[1]][u[2]][u[3]]

NoPeak(im, ch) == positions_all(psf_beads_images[im].channels[ch]) = {}

\* unsaturated 5-dimensional images without a peak above the threshold
NoPeakDataset ==
    /\ Analysing /\ AllFiveDimensional /\ ~AnySaturated
    /\ \A im \in ImageNames : \A ch \in ChannelsOf(im) : NoPeak(im, ch)

\* C19: zero beads is not an error: for a channel without a peak above the
\* threshold _find_beads returns empty collections, and on a dataset without
\* any peak analyse_psf_beads runs to completion without raising and returns
\* True with an empty bead table and no profile tables.
C19_ZeroBeadsIsNotAnError ==
    /\ Analysing =>
           \A im \in DOMAIN bead_crops : \A ch \in DOMAIN bead_crops[im] :
               NoPeak(im, ch) =>
                   /\ Len(bead_crops[im][ch]) = 0
                   /\ Len(bead_positions[im][ch]) = 0
                   /\ Len(discarded_positions_self_proximity[im][ch]) = 0
                   /\ Len(discarded_positions_lateral_edge[im][ch]) = 0
    /\ NoPeakDataset =>
           /\ pc # "raised"
           /\ Ended =>
                  /\ ReturnedTrue
                  /\ \A column \in DOMAIN output.bead_properties :
                         Len(output.bead_properties[column]) = 0
                  /\ output.bead_z_profiles = NoValue
                  /\ output.bead_y_profiles = NoValue
                  /\ output.bead_x_profiles = NoValue

C19_Witness ==
    /\ NoPeakDataset /\ ReturnedTrue
    /\ Len(psf_beads_images) = MaxImages
    /\ \E im \in ImageNames : Len(psf_beads_images[im].channels) = MaxChannels
    /\ \A im \in ImageNames : \A ch \in ChannelsOf(im) : Len(bead_crops[im][ch]) = 0

(***************************************************************************)
(* Claims about _generate_key_values, checked under SpecKeyValues.         *)
(***************************************************************************)
\* the rows of the channel whose bead is valid: not flagged axial edge,
\* intensity outlier or bad fit on any axis
ValidRowsOf(channel_nr) ==
    SortedSeq({k \in DOMAIN args.bead_properties_df.channel_nr :
                  /\ args.bead_properties_df.channel_nr[k] = channel_nr
                  /\ ~args.bead_properties_df.considered_axial_edge[k]
                  /\ ~args.bead_properties_df.considered_intensity_outlier[k]
                  /\ ~args.bead_properties_df.considered_bad_z_fit[k]
                  /\ ~args.bead_properties_df.considered_bad_y_fit[k]
                  /\ ~args.bead_properties_df.considered_bad_x_fit[k]})

ValidValues(column, channel_nr) ==
    [j \in DOMAIN ValidRowsOf(channel_nr) |->
        args.bead_properties_df[column][ValidRowsOf(channel_nr)[j]]]

SameFraction(a, b) ==
    /\ a.den = 0 <=> b.den = 0
    /\ a.num * b.den = b.num * a.den

\* a column with the key values of its mean, median and standard deviation
StatisticsFields ==
    {<<"z_fit_rss", "fit_rss_z_mean", "fit_rss_z_median", "fit_rss_z_std">>,
     <<"y_fit_rss", "fit_rss_y_mean", "fit_rss_y_median", "fit_rss_y_std">>,
     <<"x_fit_rss", "fit_rss_x_mean", "fit_rss_x_median", "fit_rss_x_std">>,
     <<"z_fwhm", "resolution_mean_fwhm_z_pixels", "resolution_median_fwhm_z_pixels",
       "resolution_std_fwhm_z_pixels">>,
     <<"y_fwhm", "resolution_mean_fwhm_y_pixels", "resolution_median_fwhm_y_pixels",
       "resolution_std_fwhm_y_pixels">>,
     <<"x_fwhm", "resolution_mean_fwhm_x_pixels", "resolution_median_fwhm_x_pixels",
       "resolution_std_fwhm_x_pixels">>}

\* C20: the per-channel mean, median and standard deviation of the key values
\* (fit RSS, FWHM) are computed only over the valid beads of the channel: a
\* bead flagged axial_edge, intensity_outlier or bad fit on any axis does not
\* contribute to them.
C20_StatisticsOverValidBeads ==
    Returned("_generate_key_values") =>
        \A g \in DOMAIN ret.channel_nr : \A f \in StatisticsFields :
            /\ ValidRowsOf(ret.channel_nr[g]) # <<>>
            /\ SameFraction(ret[f[2]][g], Mean(ValidValues(f[1], ret.channel_nr[g])))
            /\ ret[f[3]][g] = Median2(ValidValues(f[1], ret.channel_nr[g]))
            /\ SameFraction(ret[f[4]][g], Variance(ValidValues(f[1], ret.channel_nr[g])))

(***************************************************************************)
(* Claims about the regions of interest and the key values of              *)
(* analyse_psf_beads, checked under Spec.                                  *)
(***************************************************************************)
\* the number of points of a list of regions, over all images
TotalPoints(regions) == SumSeq([im \in DOMAIN regions |-> Len(regions[im].points)])

\* the points of the regions are one per position of the lists, each with the
\* position and the channel of the bead it marks
TracesPositions(regions, positions) ==
    \A im \in DOMAIN regions :
        /\ Len(regions[im].points) = SumSeq([ch \in DOMAIN positions[im] |->
                                               Len(positions[im][ch])])
        /\ \A ch \in DOMAIN positions[im] : \A p \in Range(positions[im][ch]) :
               PointsAt(regions, im, ch, p) = 1

\* the points of the regions are one per analysed bead whose flag is set
TracesFlagged(regions, flags) ==
    \A im \in DOMAIN regions :
        /\ Len(regions[im].points)
               = SumSeq([ch \in DOMAIN flags[im] |->
                            Cardinality({b \in DOMAIN flags[im][ch] : flags[im][ch][b]})])
        /\ \A ch \in DOMAIN flags[im] : \A b \in DOMAIN flags[im][ch] :
               flags[im][ch][b] => PointsAt(regions, im, ch, bead_positions[im][ch][b]) = 1

BadFit(axis) == BeadConsideredBadFit(bead_rsss, axis, dataset.fitting_rss_threshold)

\* C21: for each flag category (lateral edge, self proximity, axial edge,
\* intensity outlier, bad z/y/x fit) the number of ROI points produced for the
\* category over all images equals the sum over channels of the category's
\* count in the key values, and each point carries the position and channel
\* of the bead it marks.
C21_ExclusionsCountedAndTraceable ==
    (Analysing /\ rois # NoValue) =>
        /\ TracesPositions(rois.discarded_bead_centers_lateral_edge,
                           discarded_positions_lateral_edge)
        /\ TracesPositions(rois.discarded_bead_centers_self_proximity,
                           discarded_positions_self_proximity)
        /\ TracesFlagged(rois.considered_bead_centers_axial_edge, bead_considered_axial_edge)
        /\ TracesFlagged(rois.considered_bead_centers_intensity_outlier,
                         bead_considered_intensity_outlier)
        /\ TracesFlagged(rois.considered_bead_centers_z_fit_quality, BadFit(1))
        /\ TracesFlagged(rois.considered_bead_centers_y_fit_quality, BadFit(2))
        /\ TracesFlagged(rois.considered_bead_centers_x_fit_quality, BadFit(3))
        /\ key_values # NoValue =>
               /\ TotalPoints(rois.discarded_bead_centers_lateral_edge)
                      = SumSeq(key_values.nr_of_beads_discarded_lateral_edge)
               /\ TotalPoints(rois.discarded_bead_centers_self_proximity)
                      = SumSeq(key_values.nr_of_beads_discarded_self_proximity)
               /\ TotalPoints(rois.considered_bead_centers_axial_edge)
                      = SumSeq(key_values.nr_of_beads_considered_axial_edge)
               /\ TotalPoints(rois.considered_bead_centers_intensity_outlier)
                      = SumSeq(key_values.nr_of_beads_considered_intensity_outlier)
               /\ TotalPoints(rois.considered_bead_centers_z_fit_quality)
                      = SumSeq(key_values.nr_of_beads_considered_bad_z_fit)
               /\ TotalPoints(rois.considered_bead_centers_y_fit_quality)
                      = SumSeq(key_values.nr_of_beads_considered_bad_y_fit)
               /\ TotalPoints(rois.considered_bead_centers_x_fit_quality)
                      = SumSeq(key_values.nr_of_beads_considered_bad_x_fit)


(***************************************************************************)
(* The bead averager.  psf_beads.py holds no averager: its test calls      *)
(* psf_beads._average_beads on a list of bead volumes, and the             *)
(* specification of the repository gives its contract.  A bead is its z    *)
(* profile of AverageBeadLength voxels of intensity 0 .. 1, not all 0; the *)
(* shift found by cross-correlation is the distance between the maxima of  *)
(* the reference and of the bead, in whole voxels; the average is held as  *)
(* the voxel-wise sums and the number of beads.                            *)
(***************************************************************************)
MaxValidBeads == 2
AverageBeadLength == 3
MaxVoxelSize == 2

\* the bead resampled at the shift, edge-extended
Aligned(bead, shift) ==
    [k \in 1..Len(bead) |-> bead[Max2(1, Min2(Len(bead), k - shift))]] \o <<>>

\* the shift that brings the bead onto the reference
RegistrationShift(reference, bead) == ArgMax(reference) - ArgMax(bead)

AlignedBeads(beads) ==
    [b \in DOMAIN beads |-> Aligned(beads[b], RegistrationShift(beads[1], beads[b]))]

\* the arithmetic mean of the aligned beads: voxel-wise sums over their number
MeanVolume(aligned) ==
    [volume |-> [k \in 1..AverageBeadLength |->
                    SumSeq([b \in DOMAIN aligned |-> aligned[b][k]])] \o <<>>,
     count |-> Len(aligned)]

\* a slip of the averager: a single valid bead is its own average
AverageOfAnyBeads(beads) ==
    IF Len(beads) < 1 THEN NoValue ELSE MeanVolume(AlignedBeads(beads))

\* the average bead of the valid beads of a channel, None below 2 beads
_average_beads(beads) ==
    IF Len(beads) < 2 THEN NoValue ELSE MeanVolume(AlignedBeads(beads))

SameVoxelSize(voxel_sizes) == \A i, j \in DOMAIN voxel_sizes : voxel_sizes[i] = voxel_sizes[j]

\* the average beads of the dataset, per channel: none when the voxel sizes
\* of the images differ
AverageBeads(valid_beads, voxel_sizes) ==
    [ch \in DOMAIN valid_beads |->
        IF SameVoxelSize(voxel_sizes) THEN _average_beads(valid_beads[ch]) ELSE NoValue]

AverageProfiles == [1..AverageBeadLength -> 0..1] \ {[k \in 1..AverageBeadLength |-> 0]}

AverageArgs ==
    [fn : {"_average_beads"},
     valid_beads : [1..MaxChannels ->
                       UNION {[1..n -> AverageProfiles] : n \in 0..MaxValidBeads}],
     voxel_sizes : [1..MaxImages -> 1..MaxVoxelSize]]

InitAverage ==
    /\ pc = "call"
    /\ args \in AverageArgs
    /\ ret = NoValue
    /\ InitLocals

CallAverage ==
    /\ pc = "call"
    /\ args.fn = "_average_beads"
    /\ ret' = [average_beads |-> AverageBeads(args.valid_beads, args.voxel_sizes)]
    /\ pc' = "returned"
    /\ UNCHANGED <<args, locals>>

NextAverage == CallAverage

SpecAverage == InitAverage /\ [][NextAverage]_vars

MaxFieldSize == 5
MaxCornerEighths == 4
MaxSlope == 1

\* int(a / b) for b > 0: the quotient truncated towards zero
TruncDiv(a, b) == IF a >= 0 THEN a \div b ELSE -((-a) \div b)

\* cfp = int(corner_fraction * (shape[0] + shape[1]) / 2)
cfp(shape, corner_fraction) ==
    TruncDiv(corner_fraction.num * (shape[1] + shape[2]), 2 * corner_fraction.den)

\* cr_y = int((shape[0] - cfp) / 2)
cr_y(shape, corner_fraction) == TruncDiv(shape[1] - cfp(shape, corner_fraction), 2)

\* cr_x = int((shape[1] - cfp) / 2)
cr_x(shape, corner_fraction) == TruncDiv(shape[2] - cfp(shape, corner_fraction), 2)

\* a bound of a slice of an axis of n items: negative bounds count from the end
SliceIndex(bound, n) == IF bound < 0 THEN Max2(bound + n, 0) ELSE Min2(bound, n)

\* the indices of start:stop on an axis of n items
Slice(start, stop, n) == SliceIndex(start, n)..(SliceIndex(stop, n) - 1)

\* channel[a:b, c:d]: the first slice runs over axis 0, the second over axis 1
Block(shape, a, b, c, d) == Slice(a, b, shape[1]) \X Slice(c, d, shape[2])

CornerLabels ==
    <<"top_left", "top_center", "top_right", "middle_left", "middle_center",
      "middle_right", "bottom_left", "bottom_center", "bottom_right">>

\* the blocks of the channel that _channel_corner_properties averages
CornerBlocks(shape, size, ry, rx) ==
    [top_left |-> Block(shape, 0, size, 0, size),
     top_center |-> Block(shape, rx, -rx, 0, size),
     top_right |-> Block(shape, -size, -1, 0, size),
     middle_left |-> Block(shape, 0, size, ry, -ry),
     middle_center |-> Block(shape, rx, -rx, ry, -ry),
     middle_right |-> Block(shape, -size, -1, ry, -ry),
     bottom_left |-> Block(shape, 0, size, -size, -1),
     bottom_center |-> Block(shape, rx, -rx, -size, -1),
     bottom_right |-> Block(shape, -size, -1, -size, -1)]

RECURSIVE SumPixels(_, _)
SumPixels(pixels, block) ==
    IF block = {} THEN 0
    ELSE LET p == CHOOSE q \in block : TRUE
         IN  pixels[p] + SumPixels(pixels, block \ {p})

\* np.mean(channel[...]) over a block
BlockMean(channel, block) ==
    [num |-> SumPixels(channel.pixels, block), den |-> Cardinality(block)]

\* np.max(channel)
ChannelMax(channel) == SetMax(Range(channel.pixels))

CornerProperties(channel, blocks, max_intensity) ==
    [intensity_mean |-> [l \in Range(CornerLabels) |-> BlockMean(channel, blocks[l])],
     intensity_ratio |->
         [l \in Range(CornerLabels) |->
             [num |-> BlockMean(channel, blocks[l]).num,
              den |-> BlockMean(channel, blocks[l]).den * max_intensity]]]

\* <label>_intensity_mean and <label>_intensity_ratio of the nine regions
_channel_corner_properties(channel, corner_fraction) ==
    CornerProperties(channel,
                     CornerBlocks(channel.shape, cfp(channel.shape, corner_fraction),
                                  cr_y(channel.shape, corner_fraction),
                                  cr_x(channel.shape, corner_fraction)),
                     ChannelMax(channel))

_c_shape(label, x, y, size) == [label |-> label, x |-> x, y |-> y, w |-> size, h |-> size]

CornerShapes(shape, size, ry, rx) ==
    <<_c_shape("top_left", 0, 0, size),
      _c_shape("top_center", rx, 0, size),
      _c_shape("top_right", shape[2] - size, 0, size),
      _c_shape("middle_left", 0, ry, size),
      _c_shape("middle_center", rx, ry, size),
      _c_shape("middle_right", shape[2] - size, ry, size),
      _c_shape("bottom_left", 0, shape[1] - size, size),
      _c_shape("bottom_center", rx, shape[1] - size, size),
      _c_shape("bottom_right", shape[2] - size, shape[1] - size, size)>>

\* the rectangles of the corner ROI, for an image of the given (y, x) shape
_corner_shapes(shape, corner_fraction) ==
    CornerShapes(shape, cfp(shape, corner_fraction), cr_y(shape, corner_fraction),
                 cr_x(shape, corner_fraction))


\* the properties of one channel: the corner properties and the channel number
\* (the maximum-intensity region and the deciles are computed by skimage and
\* numpy from the same channel and do not enter the state)
ChannelProperties(image, c, corner_fraction) ==
    [channel |-> c - 1,
     intensity_mean |-> _channel_corner_properties(image.channels[c],
                                                   corner_fraction).intensity_mean,
     intensity_ratio |-> _channel_corner_properties(image.channels[c],
                                                    corner_fraction).intensity_ratio]

\* the properties of a single channel, or the lists of those of the channels
_image_properties(image, corner_fraction) ==
    IF Len(image.channels) = 1 THEN ChannelProperties(image, 1, corner_fraction)
    ELSE [channel |-> [c \in DOMAIN image.channels |-> c - 1],
          intensity_mean |->
              [l \in Range(CornerLabels) |->
                  [c \in DOMAIN image.channels |->
                      ChannelProperties(image, c, corner_fraction).intensity_mean[l]]],
          intensity_ratio |->
              [l \in Range(CornerLabels) |->
                  [c \in DOMAIN image.channels |->
                      ChannelProperties(image, c, corner_fraction).intensity_ratio[l]]]]

ProfileNames ==
    <<"leftTop_to_rightBottom", "leftBottom_to_rightTop", "center_horizontal",
      "center_vertical">>

\* the columns of the profile table: for each profile, one column per channel
\* (the values are interpolated by scipy and do not enter the state)
_image_line_profile(image) ==
    [k \in 1..(Len(ProfileNames) * Len(image.channels)) |->
        [profile |-> ProfileNames[((k - 1) \div Len(image.channels)) + 1],
         c |-> (k - 1) % Len(image.channels)]] \o <<>>

Line(label, x1, y1, x2, y2) == [label |-> label, x1 |-> x1, y1 |-> y1, x2 |-> x2, y2 |-> y2]

_line_profile_shapes(shape) ==
    <<Line("leftTop_to_rightBottom", 0, 0, shape[2], shape[1]),
      Line("leftBottom_to_rightTop", 0, shape[1], shape[2], 0),
      Line("center_horizontal", 0, shape[1] \div 2, shape[2], shape[1] \div 2),
      Line("center_vertical", shape[2] \div 2, 0, shape[2] \div 2, shape[1])>>

\* the channels of the intensity map (the map itself is zoomed by scipy)
_image_intensity_map(image) == [c \in DOMAIN image.channels |-> c - 1] \o <<>>

\* one point per channel, at the weighted centroid skimage has found
CentroidPoints(image) == [c \in DOMAIN image.channels |-> [label |-> c - 1, c |-> c - 1]] \o <<>>

(***************************************************************************)
(* FieldIlluminationAnalysis.run.  The image is its number of dimensions   *)
(* and, of a 5-dimensional image, the (y, x) shape and the channels of     *)
(* the first time-point and z plane; a channel is a plane of slopes        *)
(* 0 .. MaxSlope along y and x over a base intensity of 1.  output holds   *)
(* the fields of self.output assigned so far.                              *)
(***************************************************************************)
FieldShapes == (1..MaxFieldSize) \X (1..MaxFieldSize)

RunShapes == ((MaxFieldSize - 1)..MaxFieldSize) \X ((MaxFieldSize - 1)..MaxFieldSize)

Ramp(shape, a, b) ==
    [p \in (0..(shape[1] - 1)) \X (0..(shape[2] - 1)) |-> 1 + a * p[1] + b * p[2]]

FieldChannels(shape) ==
    {[shape |-> shape, pixels |-> Ramp(shape, a, b), saturated |-> s] :
        a \in 0..MaxSlope, b \in 0..MaxSlope, s \in BOOLEAN}

CornerFractions == {[num |-> k, den |-> 8] : k \in 1..MaxCornerEighths}

FieldImages ==
    {[ndim |-> d, shape |-> <<>>, channels |-> <<>>] : d \in {2, 4}}
        \cup UNION {{[ndim |-> 5, shape |-> sh, channels |-> chs] :
                        chs \in UNION {[1..n -> FieldChannels(sh)] : n \in 1..MaxChannels}} :
                       sh \in RunShapes}

RunArgs == [fn : {"run"}, image : FieldImages, corner_fraction : CornerFractions]

InitFieldIllumination ==
    /\ pc = "shape"
    /\ args \in RunArgs
    /\ ret = NoValue
    /\ InitLocals

Running == args.fn = "run"

\* a slip of the shape check: an image that is not 5-dimensional is an error
CheckShapeRaises ==
    /\ Running /\ pc = "shape"
    /\ IF args.image.ndim # 5
       THEN pc' = "raised" /\ ret' = [exception |-> "ValueError"]
       ELSE pc' = "saturation" /\ UNCHANGED ret
    /\ UNCHANGED <<args, locals>>

\* lines 311-324: validate_requirements and the check of the image shape
CheckShape ==
    /\ Running /\ pc = "shape"
    /\ IF args.image.ndim # 5
       THEN pc' = "returned" /\ ret' = [value |-> FALSE]
       ELSE pc' = "saturation" /\ UNCHANGED ret
    /\ UNCHANGED <<args, locals>>

\* lines 326-339: the scan of every channel, and the error that names them
CheckFieldSaturation ==
    /\ Running /\ pc = "saturation"
    /\ saturated_channels' = SaturatedChannels(args.image)
    /\ IF Len(SaturatedChannels(args.image)) # 0
       THEN /\ pc' = "raised"
            /\ ret' = [exception |-> "SaturationError",
                       channels |-> SaturatedChannels(args.image)]
       ELSE pc' = "key_values" /\ UNCHANGED ret
    /\ UNCHANGED <<args, image_index, bead_crops, bead_positions, bead_rsss, bead_fwhms,
                   bead_considered_axial_edge, discarded_positions_self_proximity,
                   discarded_positions_lateral_edge, bead_robust_z_scores,
                   bead_considered_intensity_outlier, bead_properties, rois, key_values,
                   output, processed, fitted>>

\* self.output.<field> = value, and on to the next statement
AssignField(at, field, value, next) ==
    /\ Running /\ pc = at
    /\ output' = IF output = NoValue THEN field :> value ELSE output @@ (field :> value)
    /\ pc' = next
    /\ UNCHANGED <<args, ret, image_index, saturated_channels, bead_crops, bead_positions,
                   bead_rsss, bead_fwhms, bead_considered_axial_edge,
                   discarded_positions_self_proximity, discarded_positions_lateral_edge,
                   bead_robust_z_scores, bead_considered_intensity_outlier, bead_properties,
                   rois, key_values, processed, fitted>>

\* lines 341-347
AssignKeyValues ==
    AssignField("key_values", "key_values",
                _image_properties(args.image, args.corner_fraction), "intensity_map")

\* lines 349-355
AssignIntensityMap ==
    AssignField("intensity_map", "intensity_map", _image_intensity_map(args.image),
                "intensity_profiles")

\* lines 357-359
AssignIntensityProfiles ==
    AssignField("intensity_profiles", "intensity_profiles", _image_line_profile(args.image),
                "roi_profiles")

\* lines 361-366
AssignRoiProfiles ==
    AssignField("roi_profiles", "roi_profiles", _line_profile_shapes(args.image.shape),
                "roi_corners")

\* lines 368-373
AssignRoiCorners ==
    AssignField("roi_corners", "roi_corners",
                _corner_shapes(args.image.shape, args.corner_fraction),
                "roi_centroids_weighted")

\* lines 375-391
AssignRoiCentroids ==
    AssignField("roi_centroids_weighted", "roi_centroids_weighted",
                CentroidPoints(args.image), "processed")

\* lines 393-396
SetProcessed ==
    /\ Running /\ pc = "processed"
    /\ processed' = TRUE
    /\ pc' = "returned"
    /\ ret' = [value |-> TRUE]
    /\ UNCHANGED <<args, image_index, saturated_channels, bead_crops, bead_positions,
                   bead_rsss, bead_fwhms, bead_considered_axial_edge,
                   discarded_positions_self_proximity, discarded_positions_lateral_edge,
                   bead_robust_z_scores, bead_considered_intensity_outlier, bead_properties,
                   rois, key_values, output, fitted>>

NextFieldIllumination ==
    \/ CheckShape
    \/ CheckFieldSaturation
    \/ AssignKeyValues
    \/ AssignIntensityMap
    \/ AssignIntensityProfiles
    \/ AssignRoiProfiles
    \/ AssignRoiCorners
    \/ AssignRoiCentroids
    \/ SetProcessed

SpecFieldIllumination == InitFieldIllumination /\ [][NextFieldIllumination]_vars


(***************************************************************************)
(* Claims about FieldIlluminationAnalysis.run, checked under               *)
(* SpecFieldIllumination.                                                  *)
(***************************************************************************)
\* the numbers, from 0, of the saturated channels of the image
SaturatedFieldChannels ==
    {c - 1 : c \in {k \in DOMAIN args.image.channels : args.image.channels[k].saturated}}

\* C23: run checks every channel for saturation before computing any output;
\* if at least one channel is saturated it raises SaturationError naming all
\* saturated channels, assigns none of the output fields and leaves processed
\* unset; if the image is not 5-dimensional it returns False without raising.
C23_SaturationCheckedBeforeOutput ==
    Running =>
        /\ (output # NoValue \/ processed) =>
               /\ pc \notin {"shape", "saturation"}
               /\ SaturatedFieldChannels = {}
        /\ SaturatedFieldChannels # {} =>
               /\ output = NoValue /\ ~processed
               /\ Ended =>
                      /\ pc = "raised"
                      /\ ret.exception = "SaturationError"
                      /\ Range(ret.channels) = SaturatedFieldChannels
        /\ args.image.ndim # 5 =>
               /\ pc # "raised"
               /\ output = NoValue /\ ~processed
               /\ Ended => ReturnedFalse

\* the error names both channels of an image whose two channels are saturated
C23_Witness ==
    /\ Running /\ pc = "raised"
    /\ ret.exception = "SaturationError"
    /\ Len(ret.channels) = 2
    /\ output = NoValue /\ ~processed


(***************************************************************************)
(* Claims about the layers of the exclusions of analyse_psf_beads, checked *)
(* under Spec.                                                             *)
(***************************************************************************)
\* the positions of a channel of an image reported in a discarded set
DiscardedAt(im, ch) ==
    Range(discarded_positions_self_proximity[im][ch])
        \cup Range(discarded_positions_lateral_edge[im][ch])

\* the position of row k of the bead table
RowPosition(k) ==
    <<bead_properties.z_centroid[k], bead_properties.y_centroid[k],
      bead_properties.x_centroid[k]>>

\* C24: fitting, axial-edge, bad-fit and intensity-outlier evaluation are
\* performed only on positions that passed structural filtering; no position
\* reported in the self-proximity or lateral-edge discarded sets gets a crop,
\* a row in the bead table, or a contribution to the median/MAD of the
\* outlier classifier.
C24_DiscardedPositionsAreNotAnalysed ==
    Analysing =>
        /\ \A t \in AnalysedBeads :
               /\ bead_positions[t[1]][t[2]][t[3]]
                      \in positions_proximity_edge_filtered(
                              psf_beads_images[t[1]].channels[t[2]],
                              dataset.min_lateral_distance_factor)
               /\ bead_positions[t[1]][t[2]][t[3]] \notin DiscardedAt(t[1], t[2])
        /\ bead_robust_z_scores # <<>> =>
               \A im \in DOMAIN bead_robust_z_scores :
                   \A ch \in DOMAIN bead_robust_z_scores[im] :
                       \A b \in DOMAIN bead_robust_z_scores[im][ch] :
                           bead_positions[im][ch][b] \notin DiscardedAt(im, ch)
        /\ bead_properties # NoValue =>
               \A k \in BeadRows :
                   RowPosition(k) \notin DiscardedAt(bead_properties.image_name[k],
                                                    bead_properties.channel_nr[k] + 1)


(***************************************************************************)
(* Claims about the lateral border and the crops of _find_beads, checked   *)
(* under SpecFindBeads.                                                    *)
(***************************************************************************)
\* min_distance / 2 rounded up, in pixels, of a min_distance in half pixels
HalfMinDistanceRoundedUp(min_distance) == (min_distance + 3) \div 4

\* the y or x coordinate of p is within width pixels of the lateral border
WithinLateralBorder(channel, p, width) ==
    \E i \in 2..3 : p[i] < width \/ p[i] >= channel.shape[i] - width

\* C25: the distance-and-edge-filtered peak set excludes every peak whose y
\* or x coordinate is within min_distance / 2 rounded up of the lateral
\* border, for every min_distance including odd and non-integer values.
C25_LateralBorderIsHalfDistanceRoundedUp ==
    Returned("_find_beads") =>
        \A p \in DistanceEdgeFiltered :
            ~WithinLateralBorder(args.channel, p, HalfMinDistanceRoundedUp(args.min_distance))


\* the crop of the bead at pos is channel[:, y-h : y+h, x-h : x+h] taken
\* whole: no bound is negative or past the end of its axis
CropInsideVolume(channel, pos, half) ==
    \A i \in 2..3 : pos[i] - half >= 0 /\ pos[i] + half <= channel.shape[i]

\* C26: for min_distance >= 2, every bead crop returned by _find_beads spans
\* the full z range of the channel and exactly 2 * floor(min_distance / 2)
\* pixels in y and in x, and lies entirely inside the volume: no slice bound
\* is negative or past the end, so no crop is clipped, empty or wrapped
\* around, and all crops of a channel have the same shape.
C26_CropsAreWholeAndOfOneShape ==
    (Returned("_find_beads") /\ args.min_distance >= 4) =>
        \A b \in DOMAIN ret.bead_images :
            /\ CropInsideVolume(args.channel, ret.valid_positions[b],
                                HalfMinDistance(args.min_distance))
            /\ ret.bead_images[b].shape
                   = <<args.channel.shape[1], 2 * HalfMinDistance(args.min_distance),
                       2 * HalfMinDistance(args.min_distance)>>
            /\ ret.bead_images[b].origin
                   = <<0, ret.valid_positions[b][2] - HalfMinDistance(args.min_distance),
                       ret.valid_positions[b][3] - HalfMinDistance(args.min_distance)>>
            /\ ret.valid_positions[b] \in DOMAIN ret.bead_images[b].voxels

\* two beads are cropped, one of them as close to the lateral border as the
\* filter allows, with a crop of 4 pixels in y and x that starts at pixel 0
C26_Witness ==
    /\ Returned("_find_beads")
    /\ HalfMinDistance(args.min_distance) = 2
    /\ Len(ret.bead_images) >= 2
    /\ \E b \in DOMAIN ret.bead_images :
           /\ ret.valid_positions[b][2] = 2
           /\ ret.bead_images[b].origin[2] = 0
           /\ ret.bead_images[b].shape = <<ZSize, 4, 4>>


\* the number of channels of the images whose beads are summarised
NrChannels == Len(args.discarded_positions_lateral_edge[1])

\* C27: in the key values built by _generate_key_values, every per-channel
\* list has the same length, equal to the number of channels, and entry k of
\* every list refers to channel k, also when some channel has no analysed
\* bead.
C27_KeyValueListsAlignedByChannel ==
    Returned("_generate_key_values") =>
        /\ \A field \in DOMAIN ret : Len(ret[field]) = NrChannels
        /\ \A k \in DOMAIN ret.channel_nr : ret.channel_nr[k] = k - 1


(***************************************************************************)
(* Claims about the first loop of analyse_psf_beads, checked under Spec.   *)
(***************************************************************************)
\* C28: the shape check takes precedence over the saturation check: if any
\* input image is not 5-dimensional the call returns False and never raises
\* SaturationError, even when an earlier image has a saturated channel;
\* SaturationError is raised only after every image has passed the shape
\* check.
C28_ShapeCheckBeforeSaturationError ==
    Analysing =>
        /\ ~AllFiveDimensional =>
               /\ pc = "raised" => ret.exception # "SaturationError"
               /\ Ended => ReturnedFalse
        /\ (pc = "raised" /\ ret.exception = "SaturationError") =>
               /\ AllFiveDimensional
               /\ Len(saturated_channels) = Len(psf_beads_images)


(***************************************************************************)
(* Claims about the outliers of a sample without spread, checked under     *)
(* SpecOutliers.                                                           *)
(***************************************************************************)
\* the maximum intensities of the beads passed to the classifier
SampleMaxima == BeadMaxIntensities(args.bead_crops)

\* the flag of every bead is that its maximum differs from the median
FlaggedIffOffMedian ==
    \A im \in DOMAIN args.bead_crops :
        \A ch \in DOMAIN args.bead_crops[im] :
            \A b \in DOMAIN args.bead_crops[im][ch] :
                ret.bead_considered_intensity_outlier[im][ch][b]
                    <=> 2 * BeadMax(args.bead_crops[im][ch][b]) # Median2(SampleMaxima)

\* C29: when n >= 6 and the MAD of the bead maximum intensities is 0 (more
\* than half of the beads share the median value),
\* _calculate_bead_intensity_outliers raises no error, flags every bead whose
\* maximum intensity differs from the median, and flags no bead whose maximum
\* intensity equals the median.
C29_ZeroMadFlagsOffMedianBeads ==
    (args.fn = "_calculate_bead_intensity_outliers"
         /\ Len(SampleMaxima) >= MinOutlierSample /\ Mad4(SampleMaxima) = 0) =>
        /\ pc # "raised"
        /\ pc = "returned" => FlaggedIffOffMedian

\* a sample of 6 or more beads without spread, with a bead above the median,
\* flagged, a bead below it, flagged, and the beads at the median, not flagged
C29_Witness ==
    /\ Returned("_calculate_bead_intensity_outliers")
    /\ Len(SampleMaxima) >= MinOutlierSample /\ Mad4(SampleMaxima) = 0
    /\ \E i, j \in DOMAIN SampleMaxima :
           /\ 2 * SampleMaxima[i] > Median2(SampleMaxima)
           /\ 2 * SampleMaxima[j] < Median2(SampleMaxima)
    /\ \E im \in DOMAIN args.bead_crops : \E ch \in DOMAIN args.bead_crops[im] :
           \E b, c \in DOMAIN args.bead_crops[im][ch] :
               /\ ret.bead_considered_intensity_outlier[im][ch][b]
               /\ ~ret.bead_considered_intensity_outlier[im][ch][c]


(***************************************************************************)
(* Inputs of _channel_corner_properties and _corner_shapes: a channel of   *)
(* 1 .. MaxFieldSize pixels in y and in x, and a corner fraction of        *)
(* 1 .. MaxCornerEighths eighths.                                          *)
(***************************************************************************)
CornerArgs ==
    [fn : {"_channel_corner_properties", "_corner_shapes"},
     channel : UNION {{ch \in FieldChannels(sh) : ~ch.saturated} : sh \in FieldShapes},
     corner_fraction : CornerFractions]

InitCorners ==
    /\ pc = "call"
    /\ args \in CornerArgs
    /\ ret = NoValue
    /\ InitLocals

CallCornerProperties ==
    /\ pc = "call"
    /\ args.fn = "_channel_corner_properties"
    /\ ret' = _channel_corner_properties(args.channel, args.corner_fraction)
    /\ pc' = "returned"
    /\ UNCHANGED <<args, locals>>

CallCornerShapes ==
    /\ pc = "call"
    /\ args.fn = "_corner_shapes"
    /\ ret' = [shapes |-> _corner_shapes(args.channel.shape, args.corner_fraction)]
    /\ pc' = "returned"
    /\ UNCHANGED <<args, locals>>

NextCorners == CallCornerProperties \/ CallCornerShapes

SpecCorners == InitCorners /\ [][NextCorners]_vars

(***************************************************************************)
(* Claims about the corner regions of the field illumination, checked      *)
(* under SpecCorners.                                                      *)
(***************************************************************************)
\* the pixels <<y, x>> that a rectangle of the corner ROI covers
RectanglePixels(rectangle) ==
    (rectangle.y..(rectangle.y + rectangle.h - 1))
        \X (rectangle.x..(rectangle.x + rectangle.w - 1))

\* the blocks averaged for the channel of the call
AveragedBlocks ==
    CornerBlocks(args.channel.shape, cfp(args.channel.shape, args.corner_fraction),
                 cr_y(args.channel.shape, args.corner_fraction),
                 cr_x(args.channel.shape, args.corner_fraction))

\* the rectangles reported for the image of the call
ReportedRectangles ==
    IF args.fn = "_corner_shapes" THEN ret.shapes
    ELSE _corner_shapes(args.channel.shape, args.corner_fraction)

\* C30: for each of the nine labelled regions the block of pixels averaged
\* by _channel_corner_properties is the same cfp x cfp block, in the same
\* (y, x) place, as the rectangle that _corner_shapes reports for that label,
\* for every image shape and corner fraction.
C30_AveragedBlockIsReportedRectangle ==
    (pc = "returned" /\ args.fn \in {"_channel_corner_properties", "_corner_shapes"}) =>
        \A k \in DOMAIN CornerLabels :
            /\ ReportedRectangles[k].label = CornerLabels[k]
            /\ AveragedBlocks[CornerLabels[k]] = RectanglePixels(ReportedRectangles[k])
            /\ args.fn = "_channel_corner_properties" =>
                   ret.intensity_mean[CornerLabels[k]]
                       = BlockMean(args.channel,
                                   RectanglePixels(ReportedRectangles[k])
                                       \cap DOMAIN args.channel.pixels)

====
